---- MODULE Spec2Model ----
\* Drive-through road stop platforms (src/src/roadstop.cpp): the per-tile
\* RoadStop records, the Platform shared by the tiles of one run, and the
\* operations MakeDriveThrough, ClearDriveThrough, Rebuild, CheckIntegrity
\* and ~RoadStop.
EXTENDS Integers, Sequences, FiniteSets, TLC

\* ---------------------------------------------------------------- bounds
\* Number of buildable tiles in the row along AXIS_X.
MapLen == 4

\* Capacity of the text buffer in bytes, the terminating zero included.
MaxBytes == 3

\* ------------------------------------------------------------- constants
TILE_SIZE == 16

\* ------------------------------------------------------------------- map
\* The map is a square of MapSizeX * MapSizeY tiles indexed y * MapSizeX + x.
\* The outermost ring of tiles is void, as on a real map, so that stepping
\* one tile away from a buildable tile never leaves the map.
MapSizeX == MapLen + 2
MapSizeY == MapSizeX
MapTiles == 0 .. (MapSizeX * MapSizeY - 1)
TileXY(x, y) == y * MapSizeX + x

\* The tiles on which a stop can be built: one row along the X axis and one
\* more tile south (along the Y axis) of the first tile of that row.
Row == {TileXY(x, 1) : x \in 1 .. MapLen}
Corner == TileXY(1, 1)
SouthOfCorner == TileXY(1, 2)
Buildable == Row \cup {Corner, SouthOfCorner}

Void == [void |-> TRUE]
NULL == 0
NoStop == [none |-> TRUE]
NoVeh == [none |-> TRUE]

\* What a drive-through stop tile carries on the map: station index, station
\* type (bus or truck stop) and the axis of the road.
DriveThroughKinds ==
  { [st |-> 1, rst |-> "BUS",   dt |-> TRUE, axis |-> "AXIS_X"],
    [st |-> 2, rst |-> "BUS",   dt |-> TRUE, axis |-> "AXIS_X"],
    [st |-> 1, rst |-> "TRUCK", dt |-> TRUE, axis |-> "AXIS_X"],
    [st |-> 1, rst |-> "BUS",   dt |-> TRUE, axis |-> "AXIS_Y"] }
\* A bay (not drive-through) bus stop of station 1: a station tile of the
\* same station and type that is no part of any run.
BayKind == [st |-> 1, rst |-> "BUS", dt |-> FALSE, axis |-> "NONE"]

\* The kinds built on tile t: bus stops of two stations along the row, every
\* kind on the corner tile, and stops along the Y axis south of the corner.
RowKinds == {k \in DriveThroughKinds : k.rst = "BUS" /\ k.axis = "AXIS_X"}
ColumnKinds == {k \in DriveThroughKinds : k.axis = "AXIS_Y"}
KindsAt(t) ==
  IF t = Corner THEN DriveThroughKinds
  ELSE IF t = SouthOfCorner THEN ColumnKinds
  ELSE RowKinds

\* Platform objects live at addresses 1 .. |Buildable|; there are never more
\* runs than tiles.
Handles == 1 .. Cardinality(Buildable)

\* The road vehicles of the model and their cached total lengths.
Vehicles == {"rv1", "rv2"}
CachedLen(v) == IF v = "rv1" THEN 8 ELSE 5

VARIABLES
  map,    \* tile -> Void or the stop kind on that tile
  rs,     \* tile -> NoStop or the RoadStop record whose xy is that tile
  plat,   \* handle -> Platform object (live or freed)
  veh,    \* vehicle -> NoVeh or where and how it stands
  removing, \* the tile whose stop is being removed (detached, record not yet destroyed), or NULL
  fault,  \* "" while running; else the failed assertion or undefined behaviour
  call,   \* NoCall, or the locals and position of the operation that runs step by step
  tb      \* NoText, or the fields of a Textbuf

vars == <<map, rs, plat, veh, removing, fault, call, tb>>

NoCall == [none |-> TRUE]
NoText == [none |-> TRUE]

\* Memory that holds no Platform: never allocated, or freed by delete.
Unallocated == [live |-> FALSE, freed |-> FALSE, length |-> 0, occupied_east |-> 0, occupied_west |-> 0]
FreedPlatform == [live |-> FALSE, freed |-> TRUE, length |-> 0, occupied_east |-> 0, occupied_west |-> 0]

\* The machine state the operations thread through.
St(m, r, p, f) == [map |-> m, rs |-> r, plat |-> p, fault |-> f]
Fail(S, why) == IF S.fault = "" THEN [S EXCEPT !.fault = why] ELSE S

\* ------------------------------------------------------ adjacency oracle
IsStationTile(m, t) == t \in MapTiles /\ m[t] # Void
GetStationIndex(m, t) == m[t].st
GetStationType(m, t) == m[t].rst
GetRoadStopType(m, t) == m[t].rst
GetRoadStopAxis(m, t) == m[t].axis
IsDriveThroughStopTile(m, t) == m[t].dt

AxisToDiagDir(axis) == IF axis = "AXIS_X" THEN "DIAGDIR_SW" ELSE "DIAGDIR_SE"
TileOffsByDiagDir(dir) ==
  CASE dir = "DIAGDIR_NE" -> -1
    [] dir = "DIAGDIR_SE" -> MapSizeX
    [] dir = "DIAGDIR_SW" -> 1
    [] dir = "DIAGDIR_NW" -> -MapSizeX
DiagDirToDir(dir) ==
  CASE dir = "DIAGDIR_NE" -> "DIR_NE"
    [] dir = "DIAGDIR_SE" -> "DIR_SE"
    [] dir = "DIAGDIR_SW" -> "DIR_SW"
    [] dir = "DIAGDIR_NW" -> "DIR_NW"
ReverseDir(d) ==
  CASE d = "DIR_NE" -> "DIR_SW"
    [] d = "DIR_SW" -> "DIR_NE"
    [] d = "DIR_SE" -> "DIR_NW"
    [] d = "DIR_NW" -> "DIR_SE"
GetRoadStopDir(m, t) == AxisToDiagDir(GetRoadStopAxis(m, t))
Abs(n) == IF n < 0 THEN -n ELSE n

\* Mutant: the station of the next tile is not compared.
IsDriveThroughRoadStopContinuation_AnyStation(m, rst, next) ==
  /\ IsStationTile(m, next)
  /\ GetStationType(m, next) = GetStationType(m, rst)
  /\ IsDriveThroughStopTile(m, next)
  /\ GetRoadStopAxis(m, next) = GetRoadStopAxis(m, rst)

IsDriveThroughRoadStopContinuation(m, rst, next) ==
  /\ IsStationTile(m, next)
  /\ GetStationIndex(m, next) = GetStationIndex(m, rst)
  /\ GetStationType(m, next) = GetStationType(m, rst)
  /\ IsDriveThroughStopTile(m, next)
  /\ GetRoadStopAxis(m, next) = GetRoadStopAxis(m, rst)

\* ------------------------------------------------------------- GetByTile
\* The RoadStop of the tile's station and the given type whose xy is the
\* tile; NULL stands for the assertion that ends the walk of the list.
InStopList(r, st, type) == {t \in DOMAIN r : r[t] # NoStop /\ r[t].st = st /\ r[t].rst = type}
GetByTile(S, tile, type) ==
  IF tile \in InStopList(S.rs, GetStationIndex(S.map, tile), type) THEN tile ELSE NULL

\* ------------------------------------------------------ Platform objects
NewPlatform == [live |-> TRUE, freed |-> FALSE, length |-> 0, occupied_east |-> 0, occupied_west |-> 0]
FreeHandle(p) == CHOOSE h \in Handles : ~p[h].live /\ \A g \in Handles : ~p[g].live => h <= g

\* delete on a Platform pointer: nothing for NULL, undefined behaviour for an
\* object that is already freed.
Delete(S, h) ==
  IF h = NULL THEN S
  ELSE IF ~S.plat[h].live THEN Fail(S, "ub: double free")
  ELSE [S EXCEPT !.plat[h] = FreedPlatform]

\* A read or write through a Platform pointer is defined only for a live object.
Deref(S, h) == IF h = NULL \/ ~S.plat[h].live THEN Fail(S, "ub: dead platform") ELSE S

\* Platform field updates through a pointer.
PlatAdd(S, h, field, n) ==
  IF Deref(S, h).fault # "" THEN Deref(S, h)
  ELSE [S EXCEPT !.plat[h][field] = @ + n]
PlatGet(S, h, field) == IF h = NULL THEN 0 ELSE S.plat[h][field]

\* --------------------------------------------------------------- RoadStop
\* A RoadStop record; base is bit RSSFB_BASE_ENTRY of its status.
NewRoadStop(k) == [st |-> k.st, rst |-> k.rst, base |-> FALSE, platform |-> NULL]
SetBase(S, r) == [S EXCEPT !.rs[r].base = TRUE]
\* Mutant: the base bit is never cleared.
ClrBase_Kept(S, r) == S
ClrBase(S, r) == [S EXCEPT !.rs[r].base = FALSE]
SetPlatform(S, r, h) == [S EXCEPT !.rs[r].platform = h]

\* The offset that heads south along the axis of the stop on tile xy.
SouthOffset(m, xy) == TileOffsByDiagDir(AxisToDiagDir(GetRoadStopAxis(m, xy)))

\* ------------------------------------------------------- MakeDriveThrough
\* The loop that makes all 'children' of the southern tile take the new
\* master; yields the state and the number of stops added.
\* Mutant: the southern stops are taken over without being counted.
RECURSIVE MergeWalk_Uncounted(_, _, _, _, _, _, _)
MergeWalk_Uncounted(S, this, rst, rs_north, south_tile, offset, added) ==
  IF ~IsDriveThroughRoadStopContinuation(S.map, this, south_tile)
  THEN [S |-> S, added |-> added]
  ELSE LET rs_south == GetByTile(S, south_tile, rst) IN
       IF rs_south = NULL THEN [S |-> Fail(S, "assert: GetByTile"), added |-> added]
       ELSE IF S.rs[rs_south].platform = NULL THEN [S |-> S, added |-> added]
       ELSE MergeWalk_Uncounted(SetPlatform(S, rs_south, S.rs[rs_north].platform),
                                this, rst, rs_north, south_tile + offset, offset, added)

\* Mutant: the southern stops are not taken over.
MergeWalk_Stopped(S, this, rst, rs_north, south_tile, offset, added) ==
  [S |-> S, added |-> added]

RECURSIVE MergeWalk(_, _, _, _, _, _, _)
MergeWalk(S, this, rst, rs_north, south_tile, offset, added) ==
  IF ~IsDriveThroughRoadStopContinuation(S.map, this, south_tile)
  THEN [S |-> S, added |-> added]
  ELSE LET rs_south == GetByTile(S, south_tile, rst) IN
       IF rs_south = NULL THEN [S |-> Fail(S, "assert: GetByTile"), added |-> added]
       ELSE IF S.rs[rs_south].platform = NULL THEN [S |-> S, added |-> added]
       ELSE MergeWalk(SetPlatform(S, rs_south, S.rs[rs_north].platform),
                      this, rst, rs_north, south_tile + offset, offset, added + 1)

\* Mutant: the occupancy of the southern Platform is dropped.
MergeSouth_NoSum(S, this, rst, rs_north, rs_south, south_tile, offset) ==
  LET hs == S.rs[rs_south].platform
      S1 == [S EXCEPT !.rs[rs_south].base = FALSE]
      S4 == Delete(S1, hs)
  IN  MergeWalk(S4, this, rst, rs_north, south_tile, offset, 1)

\* The north-and-south branch: both neighbours carry a Platform.
MergeSouth(S, this, rst, rs_north, rs_south, south_tile, offset) ==
  LET hs == S.rs[rs_south].platform
      S1 == ClrBase(S, rs_south)
      S2 == PlatAdd(S1, S1.rs[this].platform, "occupied_east", PlatGet(S1, hs, "occupied_east"))
      S3 == PlatAdd(S2, S2.rs[this].platform, "occupied_west", PlatGet(S2, hs, "occupied_west"))
      S4 == Delete(S3, hs)
  IN  MergeWalk(S4, this, rst, rs_north, south_tile, offset, 1)

\* Mutant: the only stop of a run gets its Platform but not the base bit.
BecomeMaster_NoBase(S, this) ==
  LET h == FreeHandle(S.plat) IN
  SetPlatform([S EXCEPT !.plat[h] = NewPlatform], this, h)

\* We are the only... so we are automatically the master.
BecomeMaster(S, this) ==
  LET h == FreeHandle(S.plat) IN
  SetBase(SetPlatform([S EXCEPT !.plat[h] = NewPlatform], this, h), this)

\* Mutant: the platform pointer is not looked at before it is overwritten.
MakeDriveThrough_Unchecked(S, this) ==
  LET rst == GetRoadStopType(S.map, this)
      offset == SouthOffset(S.map, this)
      north_tile == this - offset
      north == IsDriveThroughRoadStopContinuation(S.map, this, north_tile)
      rs_north == IF north THEN GetByTile(S, north_tile, rst) ELSE NULL
      south_tile == this + offset
      south == IsDriveThroughRoadStopContinuation(S.map, this, south_tile)
      rs_south == IF south THEN GetByTile(S, south_tile, rst) ELSE NULL
  IN
  IF (north /\ rs_north = NULL) \/ (south /\ rs_south = NULL)
  THEN Fail(S, "assert: GetByTile")
  ELSE
  LET W ==
        IF north /\ S.rs[rs_north].platform # NULL THEN
          LET S1 == SetPlatform(S, this, S.rs[rs_north].platform) IN
          IF south /\ S1.rs[rs_south].platform # NULL
          THEN MergeSouth(S1, this, rst, rs_north, rs_south, south_tile, offset)
          ELSE [S |-> S1, added |-> 1]
        ELSE IF south /\ S.rs[rs_south].platform # NULL THEN
          [S |-> ClrBase(SetBase(SetPlatform(S, this, S.rs[rs_south].platform), this), rs_south),
           added |-> 1]
        ELSE [S |-> BecomeMaster(S, this), added |-> 1]
  IN  PlatAdd(W.S, W.S.rs[this].platform, "length", W.added * TILE_SIZE)

\* Mutant: a stop built north of a run joins it and leaves the base where it is.
MakeDriveThrough_BaseStays(S, this) ==
  IF S.rs[this].platform # NULL THEN Fail(S, "assert: platform == NULL")
  ELSE
  LET rst == GetRoadStopType(S.map, this)
      offset == SouthOffset(S.map, this)
      north_tile == this - offset
      north == IsDriveThroughRoadStopContinuation(S.map, this, north_tile)
      rs_north == IF north THEN GetByTile(S, north_tile, rst) ELSE NULL
      south_tile == this + offset
      south == IsDriveThroughRoadStopContinuation(S.map, this, south_tile)
      rs_south == IF south THEN GetByTile(S, south_tile, rst) ELSE NULL
  IN
  IF (north /\ rs_north = NULL) \/ (south /\ rs_south = NULL)
  THEN Fail(S, "assert: GetByTile")
  ELSE
  LET W ==
        IF north /\ S.rs[rs_north].platform # NULL THEN
          LET S1 == SetPlatform(S, this, S.rs[rs_north].platform) IN
          IF south /\ S1.rs[rs_south].platform # NULL
          THEN MergeSouth(S1, this, rst, rs_north, rs_south, south_tile, offset)
          ELSE [S |-> S1, added |-> 1]
        ELSE IF south /\ S.rs[rs_south].platform # NULL THEN
          [S |-> SetPlatform(S, this, S.rs[rs_south].platform), added |-> 1]
        ELSE [S |-> BecomeMaster(S, this), added |-> 1]
  IN  PlatAdd(W.S, W.S.rs[this].platform, "length", W.added * TILE_SIZE)

\* Mutant: a stop that joins the run north of it is not counted in the length.
MakeDriveThrough_NotCounted(S, this) ==
  IF S.rs[this].platform # NULL THEN Fail(S, "assert: platform == NULL")
  ELSE
  LET rst == GetRoadStopType(S.map, this)
      offset == SouthOffset(S.map, this)
      north_tile == this - offset
      north == IsDriveThroughRoadStopContinuation(S.map, this, north_tile)
      rs_north == IF north THEN GetByTile(S, north_tile, rst) ELSE NULL
      south_tile == this + offset
      south == IsDriveThroughRoadStopContinuation(S.map, this, south_tile)
      rs_south == IF south THEN GetByTile(S, south_tile, rst) ELSE NULL
  IN
  IF (north /\ rs_north = NULL) \/ (south /\ rs_south = NULL)
  THEN Fail(S, "assert: GetByTile")
  ELSE
  LET W ==
        IF north /\ S.rs[rs_north].platform # NULL THEN
          LET S1 == SetPlatform(S, this, S.rs[rs_north].platform) IN
          IF south /\ S1.rs[rs_south].platform # NULL
          THEN MergeSouth(S1, this, rst, rs_north, rs_south, south_tile, offset)
          ELSE [S |-> S1, added |-> 0]
        ELSE IF south /\ S.rs[rs_south].platform # NULL THEN
          [S |-> ClrBase(SetBase(SetPlatform(S, this, S.rs[rs_south].platform), this), rs_south),
           added |-> 1]
        ELSE [S |-> BecomeMaster(S, this), added |-> 1]
  IN  PlatAdd(W.S, W.S.rs[this].platform, "length", W.added * TILE_SIZE)

\* Mutant: a northern neighbour is joined whether it has a Platform or not.
MakeDriveThrough_NullJoined(S, this) ==
  IF S.rs[this].platform # NULL THEN Fail(S, "assert: platform == NULL")
  ELSE
  LET rst == GetRoadStopType(S.map, this)
      offset == SouthOffset(S.map, this)
      north_tile == this - offset
      north == IsDriveThroughRoadStopContinuation(S.map, this, north_tile)
      rs_north == IF north THEN GetByTile(S, north_tile, rst) ELSE NULL
      south_tile == this + offset
      south == IsDriveThroughRoadStopContinuation(S.map, this, south_tile)
      rs_south == IF south THEN GetByTile(S, south_tile, rst) ELSE NULL
  IN
  IF (north /\ rs_north = NULL) \/ (south /\ rs_south = NULL)
  THEN Fail(S, "assert: GetByTile")
  ELSE
  LET W ==
        IF north THEN
          LET S1 == SetPlatform(S, this, S.rs[rs_north].platform) IN
          IF south /\ S1.rs[rs_south].platform # NULL
          THEN MergeSouth(S1, this, rst, rs_north, rs_south, south_tile, offset)
          ELSE [S |-> S1, added |-> 1]
        ELSE IF south /\ S.rs[rs_south].platform # NULL THEN
          [S |-> ClrBase(SetBase(SetPlatform(S, this, S.rs[rs_south].platform), this), rs_south),
           added |-> 1]
        ELSE [S |-> BecomeMaster(S, this), added |-> 1]
  IN  PlatAdd(W.S, W.S.rs[this].platform, "length", W.added * TILE_SIZE)

MakeDriveThrough(S, this) ==
  IF S.rs[this].platform # NULL THEN Fail(S, "assert: platform == NULL")
  ELSE
  LET rst == GetRoadStopType(S.map, this)
      offset == SouthOffset(S.map, this)
      north_tile == this - offset
      north == IsDriveThroughRoadStopContinuation(S.map, this, north_tile)
      rs_north == IF north THEN GetByTile(S, north_tile, rst) ELSE NULL
      south_tile == this + offset
      south == IsDriveThroughRoadStopContinuation(S.map, this, south_tile)
      rs_south == IF south THEN GetByTile(S, south_tile, rst) ELSE NULL
  IN
  IF (north /\ rs_north = NULL) \/ (south /\ rs_south = NULL)
  THEN Fail(S, "assert: GetByTile")
  ELSE
  LET W ==
        IF north /\ S.rs[rs_north].platform # NULL THEN
          LET S1 == SetPlatform(S, this, S.rs[rs_north].platform) IN
          IF south /\ S1.rs[rs_south].platform # NULL
          THEN MergeSouth(S1, this, rst, rs_north, rs_south, south_tile, offset)
          ELSE [S |-> S1, added |-> 1]
        ELSE IF south /\ S.rs[rs_south].platform # NULL THEN
          [S |-> ClrBase(SetBase(SetPlatform(S, this, S.rs[rs_south].platform), this), rs_south),
           added |-> 1]
        ELSE [S |-> BecomeMaster(S, this), added |-> 1]
  IN  PlatAdd(W.S, W.S.rs[this].platform, "length", W.added * TILE_SIZE)

\* ---------------------------------------------------------------- Rebuild
\* The tiles the scan of Rebuild visits, starting at t.
RECURSIVE ScanTiles(_, _, _, _)
ScanTiles(m, tile, t, offset) ==
  IF IsDriveThroughRoadStopContinuation(m, tile, t)
  THEN {t} \cup ScanTiles(m, tile, t + offset, offset)
  ELSE {}

RECURSIVE SumLength(_)
SumLength(list) ==
  IF list = {} THEN 0
  ELSE LET rv == CHOOSE x \in list : TRUE IN CachedLen(rv) + SumLength(list \ {rv})

\* The vehicles the VehicleTileIterator of tile t yields: those standing on
\* t, be it with their front (tile) or with their rear (tail).
VehiclesOnTile(v, t) == {x \in Vehicles : v[x] # NoVeh /\ (v[x].tile = t \/ v[x].tail = t)}

\* Mutant: a crashed vehicle is not skipped.
InRoadStop_CrashedToo(vr) ==
  /\ ~(vr.type # "VEH_ROAD" \/ ~vr.primary)
  /\ ~(~vr.in_road_stop)

\* Passes the two 'continue' tests of the scan.
InRoadStop(vr) ==
  /\ ~(vr.type # "VEH_ROAD" \/ ~vr.primary \/ vr.crashed)
  /\ ~(~vr.in_road_stop)

\* Platform::Rebuild: the three fields computed from scratch for the run
\* that starts at tile; ok is FALSE when the direction assertion fails.
Rebuild(m, v, tile) ==
  LET dir == GetRoadStopDir(m, tile)
      offset == Abs(TileOffsByDiagDir(dir))
      dir_east == DiagDirToDir(dir)
      tiles == ScanTiles(m, tile, tile, offset)
      found == {x \in Vehicles : \E t \in tiles : x \in VehiclesOnTile(v, t) /\ InRoadStop(v[x])}
      list_east == {x \in found : v[x].direction = dir_east}
      list_west == {x \in found : v[x].direction # dir_east}
  IN  [ok |-> \A x \in found : v[x].direction \in {dir_east, ReverseDir(dir_east)},
       length |-> TILE_SIZE * Cardinality(tiles),
       occupied_east |-> SumLength(list_east),
       occupied_west |-> SumLength(list_west)]

\* Mutant: the two occupancy totals are stored the wrong way round.
RoadStopRebuild_Swapped(S, v, r) ==
  LET h == S.rs[r].platform
      temp == Rebuild(S.map, v, r)
  IN  IF Deref(S, h).fault # "" THEN Deref(S, h)
      ELSE IF ~temp.ok THEN Fail(S, "assert: v->direction")
      ELSE [S EXCEPT !.plat[h].length = temp.length,
                     !.plat[h].occupied_east = temp.occupied_west,
                     !.plat[h].occupied_west = temp.occupied_east]

\* RoadStop::Rebuild: Platform::Rebuild on the Platform of stop r, for the
\* run starting at its tile, stores the three fields.
RoadStopRebuild(S, v, r) ==
  LET h == S.rs[r].platform
      temp == Rebuild(S.map, v, r)
  IN  IF Deref(S, h).fault # "" THEN Deref(S, h)
      ELSE IF ~temp.ok THEN Fail(S, "assert: v->direction")
      ELSE [S EXCEPT !.plat[h].length = temp.length,
                     !.plat[h].occupied_east = temp.occupied_east,
                     !.plat[h].occupied_west = temp.occupied_west]

\* --------------------------------------------------------- CheckIntegrity
\* The first assertion: the tile 'before' the road stop must not be part of
\* this 'line'.
IntegrityOfBase(m, this) ==
  ~IsDriveThroughRoadStopContinuation(m, this, this - SouthOffset(m, this))

\* The last three assertions: the live Platform against a rebuilt one.
IntegrityOfPlatform(m, p, v, this, h) ==
  LET temp == Rebuild(m, v, this) IN
  /\ temp.ok
  /\ p[h].length = temp.length
  /\ p[h].occupied_east = temp.occupied_east
  /\ p[h].occupied_west = temp.occupied_west

\* CheckIntegrity passes for the stop on tile this.
CheckIntegrity(m, r, p, v, this) ==
  IF ~r[this].base THEN TRUE
  ELSE /\ IntegrityOfBase(m, this)
       /\ r[this].platform # NULL /\ p[r[this].platform].live
       /\ IntegrityOfPlatform(m, p, v, this, r[this].platform)

\* ------------------------------------------------------ ClearDriveThrough
\* Make all (even more) southern stops part of the new entry queue.
\* Mutant: the stops south of the new base keep their old Platform.
SplitSouthWalk_Skipped(S, rst, rs_south_base, base_tile, south_tile, offset) == S

RECURSIVE SplitSouthWalk(_, _, _, _, _, _)
SplitSouthWalk(S, rst, rs_south_base, base_tile, south_tile, offset) ==
  IF ~IsDriveThroughRoadStopContinuation(S.map, base_tile, south_tile) THEN S
  ELSE LET rs_south == GetByTile(S, south_tile, rst) IN
       IF rs_south = NULL THEN Fail(S, "assert: GetByTile")
       ELSE SplitSouthWalk(SetPlatform(S, rs_south, S.rs[rs_south_base].platform),
                           rst, rs_south_base, base_tile, south_tile + offset, offset)

\* Mutant: the stop next to the removed tile is taken for the northern end.
SplitNorthWalk_Stay(S, rst, rs_north, base_tile, north_tile, offset) == rs_north

\* Find the other end; the northern most tile. Yields rs_north after the loop
\* (NULL when GetByTile fails).
RECURSIVE SplitNorthWalk(_, _, _, _, _, _)
SplitNorthWalk(S, rst, rs_north, base_tile, north_tile, offset) ==
  IF ~IsDriveThroughRoadStopContinuation(S.map, base_tile, north_tile) THEN rs_north
  ELSE LET found == GetByTile(S, north_tile, rst) IN
       IF found = NULL THEN NULL
       ELSE SplitNorthWalk(S, rst, found, base_tile, north_tile - offset, offset)

\* Mutant: the northern part is not rebuilt after the split.
SplitRun_NorthNotRebuilt(S, v, rst, rs_north, rs_south, north_tile, south_tile, offset) ==
  LET h == FreeHandle(S.plat)
      S2 == SetPlatform([S EXCEPT !.plat[h] = NewPlatform, !.rs[rs_south].base = TRUE], rs_south, h)
      S3 == SplitSouthWalk(S2, rst, rs_south, south_tile, south_tile + offset, offset)
  IN  IF S3.fault # "" THEN S3 ELSE RoadStopRebuild(S3, v, rs_south)

\* The north-and-south branch: the run is split in two.
SplitRun(S, v, rst, rs_north, rs_south, north_tile, south_tile, offset) ==
  LET h == FreeHandle(S.plat)
      S1 == SetBase(S, rs_south)
      S2 == SetPlatform([S1 EXCEPT !.plat[h] = NewPlatform], rs_south, h)
      S3 == SplitSouthWalk(S2, rst, rs_south, south_tile, south_tile + offset, offset)
      northmost == SplitNorthWalk(S3, rst, rs_north, south_tile, north_tile, offset)
  IN  IF S3.fault # "" THEN S3
      ELSE IF northmost = NULL THEN Fail(S3, "assert: GetByTile")
      ELSE LET S4 == RoadStopRebuild(S3, v, rs_south) IN
           IF S4.fault # "" THEN S4
           ELSE IF ~S4.rs[northmost].base THEN Fail(S4, "assert: HasBit(rs_north->status, RSSFB_BASE_ENTRY)")
           ELSE RoadStopRebuild(S4, v, northmost)

\* Mutant: the tile is left on the map (to be cleared by the caller later).
DoClearSquare_Later(S, t) == S

DoClearSquare(S, t) == [S EXCEPT !.map[t] = Void]

\* Mutant: the stop keeps its Platform pointer when it is cleared.
Forget_PointerKept(S, this) == [S EXCEPT !.rs[this].base = FALSE]

\* Mutant: the cleared stop keeps its base bit and its Platform pointer.
Forget_Skipped(S, this) == S

\* Make sure we don't get used for something 'incorrect'.
Forget(S, this) == SetPlatform(ClrBase(S, this), this, NULL)

\* Mutant: the last tile of a run leaves its Platform allocated.
SoleTileCleared_Leak(S, this) == S

\* We were the last.
SoleTileCleared(S, this) == Delete(S, S.rs[this].platform)

\* Mutant: the stop south of a removed base is not made the base.
ClearDriveThrough_BaseNotHanded(S, v, this) ==
  IF S.rs[this].platform = NULL THEN Fail(S, "assert: platform != NULL")
  ELSE
  LET rst == GetRoadStopType(S.map, this)
      offset == SouthOffset(S.map, this)
      north_tile == this - offset
      north == IsDriveThroughRoadStopContinuation(S.map, this, north_tile)
      rs_north == IF north THEN GetByTile(S, north_tile, rst) ELSE NULL
      south_tile == this + offset
      south == IsDriveThroughRoadStopContinuation(S.map, this, south_tile)
      rs_south == IF south THEN GetByTile(S, south_tile, rst) ELSE NULL
  IN
  IF (north /\ rs_north = NULL) \/ (south /\ rs_south = NULL)
  THEN Fail(S, "assert: GetByTile")
  ELSE
  LET S1 == DoClearSquare(S, this)
      S2 == IF north THEN
              IF south
              THEN SplitRun(S1, v, rst, rs_north, rs_south, north_tile, south_tile, offset)
              ELSE PlatAdd(S1, S1.rs[rs_north].platform, "length", -TILE_SIZE)
            ELSE IF south THEN
              PlatAdd(S1, S1.rs[rs_south].platform, "length", -TILE_SIZE)
            ELSE SoleTileCleared(S1, this)
  IN  IF S2.fault # "" THEN S2
      ELSE Forget(S2, this)

ClearDriveThrough(S, v, this) ==
  IF S.rs[this].platform = NULL THEN Fail(S, "assert: platform != NULL")
  ELSE
  LET rst == GetRoadStopType(S.map, this)
      offset == SouthOffset(S.map, this)
      north_tile == this - offset
      north == IsDriveThroughRoadStopContinuation(S.map, this, north_tile)
      rs_north == IF north THEN GetByTile(S, north_tile, rst) ELSE NULL
      south_tile == this + offset
      south == IsDriveThroughRoadStopContinuation(S.map, this, south_tile)
      rs_south == IF south THEN GetByTile(S, south_tile, rst) ELSE NULL
  IN
  IF (north /\ rs_north = NULL) \/ (south /\ rs_south = NULL)
  THEN Fail(S, "assert: GetByTile")
  ELSE
  LET S1 == DoClearSquare(S, this)
      S2 == IF north THEN
              IF south
              THEN SplitRun(S1, v, rst, rs_north, rs_south, north_tile, south_tile, offset)
              ELSE PlatAdd(S1, S1.rs[rs_north].platform, "length", -TILE_SIZE)
            ELSE IF south THEN
              LET T == SetBase(S1, rs_south) IN
              PlatAdd(T, T.rs[rs_south].platform, "length", -TILE_SIZE)
            ELSE SoleTileCleared(S1, this)
  IN  IF S2.fault # "" THEN S2
      ELSE Forget(S2, this)

\* -------------------------------------------------------------- ~RoadStop
\* When we are the head we need to free the entries.
DestroyRoadStop(S, this) ==
  LET S1 == IF S.rs[this].base THEN Delete(S, S.rs[this].platform) ELSE S
  IN  [S1 EXCEPT !.rs[this] = NoStop]

\* ---------------------------------------------------------------- actions
Init ==
  /\ map = [t \in MapTiles |-> Void]
  /\ rs = [t \in Buildable |-> NoStop]
  /\ plat = [h \in Handles |-> Unallocated]
  /\ veh = [x \in Vehicles |-> NoVeh]
  /\ removing = NULL
  /\ fault = ""
  /\ call = NoCall
  /\ tb = NoText

Commit(S) ==
  /\ map' = S.map
  /\ rs' = S.rs
  /\ plat' = S.plat
  /\ fault' = S.fault

Idle == fault = "" /\ removing = NULL /\ call = NoCall

\* A drive-through stop of kind k is built on the free tile t: the tile is
\* put on the map, its RoadStop record is created and MakeDriveThrough is
\* called on it.
Attach(t, k) ==
  /\ Idle
  /\ map[t] = Void /\ rs[t] = NoStop
  /\ VehiclesOnTile(veh, t) = {}
  /\ LET S == St([map EXCEPT ![t] = k], [rs EXCEPT ![t] = NewRoadStop(k)], plat, fault)
     IN  Commit(MakeDriveThrough(S, t))
  /\ UNCHANGED <<veh, removing>>
  /\ UNCHANGED <<call, tb>>

\* The drive-through stop on tile t is being removed: ClearDriveThrough is
\* called on its record, which is destroyed in the next step.
Detach(t) ==
  /\ Idle
  /\ map[t] \in DriveThroughKinds
  /\ Commit(ClearDriveThrough(St(map, rs, plat, fault), veh, t))
  /\ removing' = t
  /\ UNCHANGED veh
  /\ UNCHANGED <<call, tb>>

\* The record of the removed stop is destroyed: ~RoadStop.
Destroy(t) ==
  /\ fault = "" /\ call = NoCall
  /\ removing = t
  /\ Commit(DestroyRoadStop(St(map, rs, plat, fault), t))
  /\ removing' = NULL
  /\ UNCHANGED veh
  /\ UNCHANGED <<call, tb>>

\* A bay stop is built on the free tile t; it never becomes a drive-through.
BuildBay(t) ==
  /\ Idle
  /\ map[t] = Void /\ rs[t] = NoStop
  /\ map' = [map EXCEPT ![t] = BayKind]
  /\ rs' = [rs EXCEPT ![t] = NewRoadStop(BayKind)]
  /\ UNCHANGED <<plat, veh, removing, fault>>
  /\ UNCHANGED <<call, tb>>

\* The bay stop on tile t is removed and its record destroyed.
RemoveBay(t) ==
  /\ Idle
  /\ map[t] = BayKind
  /\ Commit(DestroyRoadStop(DoClearSquare(St(map, rs, plat, fault), t), t))
  /\ UNCHANGED <<veh, removing>>
  /\ UNCHANGED <<call, tb>>

\* The directions a vehicle can have in a stop on tile t.
StopDirs(t) == LET d == DiagDirToDir(GetRoadStopDir(map, t)) IN {d, ReverseDir(d)}

\* Vehicle x drives into the stop on tile t heading d and is added to the
\* occupancy of its direction.
Enter(x, t, d) ==
  /\ Idle
  /\ veh[x] = NoVeh
  /\ map[t] \in DriveThroughKinds /\ rs[t].platform # NULL
  /\ d \in StopDirs(t)
  /\ veh' = [veh EXCEPT ![x] = [tile |-> t, tail |-> t, type |-> "VEH_ROAD", primary |-> TRUE,
                                crashed |-> FALSE, in_road_stop |-> TRUE, direction |-> d]]
  /\ LET field == IF d = DiagDirToDir(GetRoadStopDir(map, t)) THEN "occupied_east" ELSE "occupied_west"
     IN  Commit(PlatAdd(St(map, rs, plat, fault), rs[t].platform, field, CachedLen(x)))
  /\ UNCHANGED removing
  /\ UNCHANGED <<call, tb>>

\* Vehicle x leaves the stop it stands in.
Leave(x) ==
  /\ Idle
  /\ veh[x] # NoVeh
  /\ map[veh[x].tile] \in DriveThroughKinds /\ rs[veh[x].tile].platform # NULL
  /\ veh' = [veh EXCEPT ![x] = NoVeh]
  /\ LET t == veh[x].tile
         field == IF veh[x].direction = DiagDirToDir(GetRoadStopDir(map, t))
                  THEN "occupied_east" ELSE "occupied_west"
     IN  Commit(PlatAdd(St(map, rs, plat, fault), rs[t].platform, field, -CachedLen(x)))
  /\ UNCHANGED removing
  /\ UNCHANGED <<call, tb>>

Next ==
  \/ \E t \in Buildable : \E k \in KindsAt(t) : Attach(t, k)
  \/ \E t \in Buildable : Detach(t)
  \/ \E t \in Buildable : Destroy(t)
  \/ BuildBay(Corner)
  \/ RemoveBay(Corner)

\* Stops of every kind are built and removed; no vehicle is about.
Spec == Init /\ [][Next]_vars

\* The kinds of stop built while vehicles use the stops.
VehKinds == {k \in DriveThroughKinds : k.st = 1 /\ k.rst = "BUS"}

NextVeh ==
  \/ \E t \in Row : \E k \in KindsAt(t) \cap VehKinds : Attach(t, k)
  \/ \E t \in Buildable : Detach(t)
  \/ \E t \in Buildable : Destroy(t)
  \/ \E x \in Vehicles, t \in Buildable, d \in {"DIR_NE", "DIR_SE", "DIR_SW", "DIR_NW"} : Enter(x, t, d)
  \/ \E x \in Vehicles : Leave(x)

\* Stops are built and removed while vehicles stand in them.
SpecVeh == Init /\ [][NextVeh]_vars

\* MakeDriveThrough is called on the record of tile t although it already
\* has a Platform.
MakeAgain(t) ==
  /\ Idle
  /\ rs[t] # NoStop /\ rs[t].platform # NULL
  /\ Commit(MakeDriveThrough(St(map, rs, plat, fault), t))
  /\ UNCHANGED <<veh, removing>>
  /\ UNCHANGED <<call, tb>>

\* ClearDriveThrough is called on the record of tile t although it has no
\* Platform: a bay stop, or a stop that was cleared already.
ClearAgain(t) ==
  /\ fault = "" /\ call = NoCall
  /\ rs[t] # NoStop /\ rs[t].platform = NULL
  /\ Commit(ClearDriveThrough(St(map, rs, plat, fault), veh, t))
  /\ UNCHANGED <<veh, removing>>
  /\ UNCHANGED <<call, tb>>

NextMisuse ==
  \/ \E t \in Buildable : \E k \in KindsAt(t) : Attach(t, k)
  \/ \E t \in Buildable : Detach(t)
  \/ \E t \in Buildable : Destroy(t)
  \/ BuildBay(Corner)
  \/ RemoveBay(Corner)
  \/ \E t \in Buildable : MakeAgain(t)
  \/ \E t \in Buildable : ClearAgain(t)

\* Stops are built and removed, and the two operations are also called on
\* records that do not meet their preconditions.
SpecMisuse == Init /\ [][NextMisuse]_vars

\* -------------------------------------------------------------- loading
\* After loading, the stop tiles are on the map and every stop has its
\* record, none of them attached: platform pointers null, base flags clear.
InitLoad ==
  /\ map \in {[t \in MapTiles |-> IF t \in Buildable THEN c[t] ELSE Void] :
                c \in {d \in [Buildable -> {Void} \cup DriveThroughKinds] :
                         \A t \in Buildable : d[t] # Void => d[t] \in KindsAt(t)}}
  /\ rs = [t \in Buildable |-> IF map[t] = Void THEN NoStop ELSE NewRoadStop(map[t])]
  /\ plat = [h \in Handles |-> Unallocated]
  /\ veh = [x \in Vehicles |-> NoVeh]
  /\ removing = NULL
  /\ fault = ""
  /\ call = NoCall
  /\ tb = NoText

\* MakeDriveThrough is called on the record of tile t, once.
LoadStop(t) ==
  /\ Idle
  /\ rs[t] # NoStop /\ rs[t].platform = NULL
  /\ Commit(MakeDriveThrough(St(map, rs, plat, fault), t))
  /\ UNCHANGED <<veh, removing>>
  /\ UNCHANGED <<call, tb>>

NextLoad == \E t \in Buildable : LoadStop(t)

\* The stops of a loaded map are attached one by one, in any order.
SpecLoad == InitLoad /\ [][NextLoad]_vars

\* ------------------------------------------------ GetByTile, step by step
\* The stops of one station and type form a list linked by their next
\* pointers; the list is written as the sequence of the xy of its records.
\* A pointer into it is the position of a record, NULL for the null pointer
\* (the head of an empty list, the next of the last record).
RECURSIVE ListsOver(_, _)
ListsOver(tiles, n) ==
  IF n = 0 THEN {<<>>}
  ELSE LET shorter == ListsOver(tiles, n - 1) IN
       shorter \cup {Append(l, t) : l \in shorter, t \in tiles}
NoRepeat(l) == \A i \in 1 .. Len(l) : \A j \in 1 .. Len(l) : l[i] = l[j] => i = j
StopLists == {l \in ListsOver(Row, MapLen) : NoRepeat(l)}

GetPrimaryRoadStop(list) == IF list = <<>> THEN NULL ELSE 1
NextOf(list, p) == IF p = Len(list) THEN NULL ELSE p + 1

\* RoadStop::GetByTile(tile, type) is called; list is the list of the stops
\* of that type of the station of the tile.
BeginGetByTile(list, tile) ==
  /\ Idle
  /\ call' = [op |-> "GetByTile", pc |-> "loop", list |-> list, tile |-> tile,
              rs |-> GetPrimaryRoadStop(list), result |-> NULL]
  /\ UNCHANGED <<map, rs, plat, veh, removing, fault, tb>>

\* One turn of the loop of GetByTile. Reading rs->xy through the null
\* pointer is undefined: the program is stopped by the system, or it reads
\* whatever memory holds there and, that being the tile asked for, returns
\* the null pointer.
StepGetByTile ==
  /\ fault = "" /\ call # NoCall /\ call.op = "GetByTile" /\ call.pc = "loop"
  /\ IF call.rs = NULL THEN
       \/ fault' = "ub: null pointer" /\ call' = call
       \/ fault' = fault /\ call' = [call EXCEPT !.pc = "done", !.result = NULL]
     ELSE IF call.list[call.rs] = call.tile THEN
       fault' = fault /\ call' = [call EXCEPT !.pc = "done", !.result = call.rs]
     ELSE IF NextOf(call.list, call.rs) = NULL THEN
       fault' = "assert: rs->next != NULL" /\ call' = call
     ELSE
       fault' = fault /\ call' = [call EXCEPT !.rs = NextOf(call.list, call.rs)]
  /\ UNCHANGED <<map, rs, plat, veh, removing, tb>>

\* The caller takes the result.
ReturnGetByTile ==
  /\ fault = "" /\ call # NoCall /\ call.op = "GetByTile" /\ call.pc = "done"
  /\ call' = NoCall
  /\ UNCHANGED <<map, rs, plat, veh, removing, fault, tb>>

NextLookup ==
  \/ \E list \in StopLists, tile \in Row : BeginGetByTile(list, tile)
  \/ StepGetByTile
  \/ ReturnGetByTile

\* GetByTile is called with every list of stops and every tile.
SpecLookup == Init /\ [][NextLookup]_vars

\* -------------------------------------------------- Rebuild, step by step
\* Mutant: a vehicle is put on the list each time it is met.
PushBackUnique_Always(list, rv) == Append(list, rv)

\* Do not add duplicates: rv is appended unless the list holds it already.
PushBackUnique(list, rv) ==
  IF \E it \in 1 .. Len(list) : list[it] = rv THEN list ELSE Append(list, rv)

\* The sum of the cached_total_length of the vehicles of a list.
RECURSIVE SumList(_)
SumList(list) == IF list = <<>> THEN 0 ELSE CachedLen(Head(list)) + SumList(Tail(list))

\* The locals of Platform::Rebuild(tile) on Platform h when its loop starts;
\* caller is the operation that goes on when Rebuild returns.
RebuildCall(m, tile, h, caller) ==
  [op |-> "Rebuild", pc |-> "scan", tile |-> tile, h |-> h,
   dir_east |-> DiagDirToDir(GetRoadStopDir(m, tile)),
   offset |-> Abs(TileOffsByDiagDir(GetRoadStopDir(m, tile))),
   t |-> tile, length |-> 0, list_east |-> <<>>, list_west |-> <<>>,
   iter |-> {}, caller |-> caller]

InRebuild(pc) == fault = "" /\ call # NoCall /\ call.op = "Rebuild" /\ call.pc = pc

\* The test of the loop over the tiles: the next tile of the run is counted
\* and its vehicles are looked at, or the loop ends.
RebuildScan ==
  /\ InRebuild("scan")
  /\ call' = IF IsDriveThroughRoadStopContinuation(map, call.tile, call.t)
             THEN [call EXCEPT !.pc = "iter", !.length = @ + TILE_SIZE,
                               !.iter = VehiclesOnTile(veh, call.t)]
             ELSE [call EXCEPT !.pc = "store"]
  /\ UNCHANGED <<map, rs, plat, veh, removing, fault, tb>>

\* The loop over the vehicles of one tile, in whatever order the iterator
\* yields them; with none left the scan moves one tile on.
RebuildIter ==
  /\ InRebuild("iter")
  /\ IF call.iter = {} THEN
       /\ call' = [call EXCEPT !.pc = "scan", !.t = @ + call.offset]
       /\ fault' = fault
     ELSE
       \E v \in call.iter :
         LET rest == [call EXCEPT !.iter = @ \ {v}] IN
         IF ~InRoadStop(veh[v]) THEN
           call' = rest /\ fault' = fault
         ELSE IF ~(veh[v].direction = call.dir_east \/ veh[v].direction = ReverseDir(call.dir_east)) THEN
           call' = rest /\ fault' = "assert: v->direction"
         ELSE IF veh[v].direction = call.dir_east THEN
           call' = [rest EXCEPT !.list_east = PushBackUnique(@, v)] /\ fault' = fault
         ELSE
           call' = [rest EXCEPT !.list_west = PushBackUnique(@, v)] /\ fault' = fault
  /\ UNCHANGED <<map, rs, plat, veh, removing, tb>>

\* The three fields are stored and Rebuild returns to its caller.
RebuildStore ==
  /\ InRebuild("store")
  /\ Commit(LET S == St(map, rs, plat, fault) IN
            IF Deref(S, call.h).fault # "" THEN Deref(S, call.h)
            ELSE [S EXCEPT !.plat[call.h].length = call.length,
                           !.plat[call.h].occupied_east = SumList(call.list_east),
                           !.plat[call.h].occupied_west = SumList(call.list_west)])
  /\ call' = call.caller
  /\ UNCHANGED <<veh, removing, tb>>

\* RoadStop::Rebuild is called on the base stop of tile r.
BeginRebuild(r) ==
  /\ Idle
  /\ map[r] \in DriveThroughKinds /\ rs[r].base /\ rs[r].platform # NULL
  /\ call' = RebuildCall(map, r, rs[r].platform, NoCall)
  /\ UNCHANGED <<map, rs, plat, veh, removing, fault, tb>>

\* What the vehicle oracle can hold for a vehicle whose front is on tile t:
\* any type, primary or not, crashed or not, in a road stop or passing,
\* heading along the row, against it or across it; a vehicle in a road stop
\* can have its rear on the next tile.
VehicleRecords(t) ==
  {vr \in [tile : {t}, tail : {t, t + 1}, type : {"VEH_ROAD", "VEH_TRAIN"},
           primary : BOOLEAN, crashed : BOOLEAN, in_road_stop : BOOLEAN,
           direction : {"DIR_SW", "DIR_NE", "DIR_SE"}] :
     vr.tail # t => (vr.type = "VEH_ROAD" /\ vr.primary /\ ~vr.crashed /\ vr.in_road_stop)}
ParkedRecords(t) ==
  {vr \in VehicleRecords(t) :
     /\ vr.type = "VEH_ROAD" /\ vr.primary /\ ~vr.crashed /\ vr.in_road_stop
     /\ vr.tail = t /\ vr.direction # "DIR_SE"}

\* The bus stops of station 1 built on the given tiles of the row, from the
\* first tile to the last.
RowStop == CHOOSE k \in DriveThroughKinds : k.st = 1 /\ k.rst = "BUS" /\ k.axis = "AXIS_X"
RECURSIVE BuildRow(_, _)
BuildRow(S, tiles) ==
  IF tiles = {} THEN S
  ELSE LET t == CHOOSE u \in tiles : \A w \in tiles : u <= w
           S1 == [S EXCEPT !.map[t] = RowStop, !.rs[t] = NewRoadStop(RowStop)]
       IN  BuildRow(MakeDriveThrough(S1, t), tiles \ {t})

\* Stops on some tiles of the row, and on them two vehicles the Platforms
\* were not told of: rv1 of any description, rv2 standing in a stop.
InitRebuild ==
  /\ \E tiles \in SUBSET Row :
       LET W == BuildRow(St([t \in MapTiles |-> Void], [t \in Buildable |-> NoStop],
                            [h \in Handles |-> Unallocated], ""), tiles)
       IN  /\ map = W.map /\ rs = W.rs /\ plat = W.plat /\ fault = W.fault
           /\ \E r1 \in {NoVeh} \cup UNION {VehicleRecords(t) : t \in tiles} :
              \E r2 \in {NoVeh} \cup UNION {ParkedRecords(t) : t \in tiles} :
                veh = [x \in Vehicles |-> IF x = "rv1" THEN r1 ELSE r2]
  /\ removing = NULL
  /\ call = NoCall
  /\ tb = NoText

NextRebuild ==
  \/ \E r \in Row : BeginRebuild(r)
  \/ RebuildScan
  \/ RebuildIter
  \/ RebuildStore

\* Rebuild is called on the runs of every row of stops, with vehicles of
\* every description standing on them.
SpecRebuild == InitRebuild /\ [][NextRebuild]_vars

\* ------------------------- MakeDriveThrough / ClearDriveThrough, step by step
\* The locals of MakeDriveThrough or ClearDriveThrough on the stop of tile
\* this when the operation is entered.
Locals(op, this) ==
  [op |-> op, pc |-> "assert", this |-> this, rst |-> "", offset |-> 0,
   north_tile |-> NULL, north |-> FALSE, rs_north |-> NULL,
   south_tile |-> NULL, south |-> FALSE, rs_south |-> NULL,
   added |-> 1, rs_south_base |-> NULL, base_tile |-> NULL]

At(op, pc) == fault = "" /\ call # NoCall /\ call.op = op /\ call.pc = pc

\* The information about the tiles north and south of us.
Classify(m, r, c) ==
  LET rst == GetRoadStopType(m, c.this)
      offset == SouthOffset(m, c.this)
      north_tile == c.this - offset
      north == IsDriveThroughRoadStopContinuation(m, c.this, north_tile)
      south_tile == c.this + offset
      south == IsDriveThroughRoadStopContinuation(m, c.this, south_tile)
      S == St(m, r, <<>>, "")
  IN  [c EXCEPT !.rst = rst, !.offset = offset,
                !.north_tile = north_tile, !.north = north,
                !.rs_north = IF north THEN GetByTile(S, north_tile, rst) ELSE NULL,
                !.south_tile = south_tile, !.south = south,
                !.rs_south = IF south THEN GetByTile(S, south_tile, rst) ELSE NULL]
ClassifyFailed(c) == (c.north /\ c.rs_north = NULL) \/ (c.south /\ c.rs_south = NULL)

\* The world and the locals after a step: S the world, c the locals.
Go(S, c) ==
  /\ Commit(S)
  /\ call' = c

\* A stop of kind k is built on the free tile t and MakeDriveThrough is
\* entered on its record.
BeginMake(t, k) ==
  /\ Idle
  /\ map[t] = Void /\ rs[t] = NoStop
  /\ VehiclesOnTile(veh, t) = {}
  /\ map' = [map EXCEPT ![t] = k]
  /\ rs' = [rs EXCEPT ![t] = NewRoadStop(k)]
  /\ call' = Locals("MakeDriveThrough", t)
  /\ UNCHANGED <<plat, veh, removing, fault, tb>>

MakeAssert ==
  /\ At("MakeDriveThrough", "assert")
  /\ LET S == St(map, rs, plat, fault) IN
     IF rs[call.this].platform # NULL
     THEN Go(Fail(S, "assert: platform == NULL"), call)
     ELSE Go(S, [call EXCEPT !.pc = "classify"])
  /\ UNCHANGED <<veh, removing, tb>>

MakeClassify ==
  /\ At("MakeDriveThrough", "classify")
  /\ LET S == St(map, rs, plat, fault)
         c == Classify(map, rs, call)
     IN  IF ClassifyFailed(c) THEN Go(Fail(S, "assert: GetByTile"), c)
         ELSE Go(S, [c EXCEPT !.pc = "branch"])
  /\ UNCHANGED <<veh, removing, tb>>

\* The three branches up to the loop of the first.
MakeBranch ==
  /\ At("MakeDriveThrough", "branch")
  /\ LET S == St(map, rs, plat, fault)
         c == call
     IN  IF c.north /\ rs[c.rs_north].platform # NULL THEN
           LET S0 == SetPlatform(S, c.this, rs[c.rs_north].platform) IN
           IF c.south /\ rs[c.rs_south].platform # NULL THEN
             LET hs == S0.rs[c.rs_south].platform
                 S1 == ClrBase(S0, c.rs_south)
                 S2 == PlatAdd(S1, S1.rs[c.this].platform, "occupied_east", PlatGet(S1, hs, "occupied_east"))
                 S3 == PlatAdd(S2, S2.rs[c.this].platform, "occupied_west", PlatGet(S2, hs, "occupied_west"))
             IN  Go(Delete(S3, hs), [c EXCEPT !.pc = "merge"])
           ELSE Go(S0, [c EXCEPT !.pc = "length"])
         ELSE IF c.south /\ rs[c.rs_south].platform # NULL THEN
           Go(ClrBase(SetBase(SetPlatform(S, c.this, rs[c.rs_south].platform), c.this), c.rs_south),
              [c EXCEPT !.pc = "length"])
         ELSE Go(BecomeMaster(S, c.this), [c EXCEPT !.pc = "length"])
  /\ UNCHANGED <<veh, removing, tb>>

\* One turn of the loop that makes the southern stops take the new master.
MakeMergeLoop ==
  /\ At("MakeDriveThrough", "merge")
  /\ LET S == St(map, rs, plat, fault)
         c == call
     IN  IF ~IsDriveThroughRoadStopContinuation(map, c.this, c.south_tile)
         THEN Go(S, [c EXCEPT !.pc = "length"])
         ELSE LET rs_south == GetByTile(S, c.south_tile, c.rst) IN
              IF rs_south = NULL THEN Go(Fail(S, "assert: GetByTile"), c)
              ELSE IF rs[rs_south].platform = NULL
              THEN Go(S, [c EXCEPT !.rs_south = rs_south, !.pc = "length"])
              ELSE Go(SetPlatform(S, rs_south, rs[c.rs_north].platform),
                      [c EXCEPT !.rs_south = rs_south, !.added = @ + 1,
                                !.south_tile = @ + c.offset])
  /\ UNCHANGED <<veh, removing, tb>>

\* Now update the lengths; MakeDriveThrough returns.
MakeLength ==
  /\ At("MakeDriveThrough", "length")
  /\ Go(PlatAdd(St(map, rs, plat, fault), rs[call.this].platform, "length", call.added * TILE_SIZE),
        NoCall)
  /\ UNCHANGED <<veh, removing, tb>>

\* ClearDriveThrough is entered on the record of the stop of tile t.
BeginClear(t) ==
  /\ Idle
  /\ map[t] \in DriveThroughKinds
  /\ call' = Locals("ClearDriveThrough", t)
  /\ UNCHANGED <<map, rs, plat, veh, removing, fault, tb>>

ClearAssert ==
  /\ At("ClearDriveThrough", "assert")
  /\ LET S == St(map, rs, plat, fault) IN
     IF rs[call.this].platform = NULL
     THEN Go(Fail(S, "assert: platform != NULL"), call)
     ELSE Go(S, [call EXCEPT !.pc = "classify"])
  /\ UNCHANGED <<veh, removing, tb>>

ClearClassify ==
  /\ At("ClearDriveThrough", "classify")
  /\ LET S == St(map, rs, plat, fault)
         c == Classify(map, rs, call)
     IN  IF ClassifyFailed(c) THEN Go(Fail(S, "assert: GetByTile"), c)
         ELSE Go(S, [c EXCEPT !.pc = "clear"])
  /\ UNCHANGED <<veh, removing, tb>>

\* Must only be cleared after we determined which neighbours are part of
\* our little entry 'queue'.
ClearSquare ==
  /\ At("ClearDriveThrough", "clear")
  /\ Go(DoClearSquare(St(map, rs, plat, fault), call.this), [call EXCEPT !.pc = "branch"])
  /\ UNCHANGED <<veh, removing, tb>>

\* The four branches, the first up to its loops.
ClearBranch ==
  /\ At("ClearDriveThrough", "branch")
  /\ LET S == St(map, rs, plat, fault)
         c == call
     IN  IF c.north THEN
           IF c.south THEN
             LET h == FreeHandle(S.plat)
                 S1 == SetBase(S, c.rs_south)
                 S2 == SetPlatform([S1 EXCEPT !.plat[h] = NewPlatform], c.rs_south, h)
             IN  Go(S2, [c EXCEPT !.rs_south_base = c.rs_south, !.base_tile = c.south_tile,
                                  !.south_tile = @ + c.offset, !.pc = "south_walk"])
           ELSE Go(PlatAdd(S, rs[c.rs_north].platform, "length", -TILE_SIZE),
                   [c EXCEPT !.pc = "reset"])
         ELSE IF c.south THEN
           LET T == SetBase(S, c.rs_south) IN
           Go(PlatAdd(T, T.rs[c.rs_south].platform, "length", -TILE_SIZE),
              [c EXCEPT !.pc = "reset"])
         ELSE Go(SoleTileCleared(S, c.this), [c EXCEPT !.pc = "reset"])
  /\ UNCHANGED <<veh, removing, tb>>

\* Mutant: the walk south does not move on to the next tile.
SouthWalkTurn_NoAdvance(S, c) ==
  LET rs_south == GetByTile(S, c.south_tile, c.rst) IN
  IF rs_south = NULL THEN [S |-> Fail(S, "assert: GetByTile"), c |-> c]
  ELSE [S |-> SetPlatform(S, rs_south, S.rs[c.rs_south_base].platform),
        c |-> [c EXCEPT !.rs_south = rs_south]]

\* The body of the loop over the southern stops, and the step to the next.
SouthWalkTurn(S, c) ==
  LET rs_south == GetByTile(S, c.south_tile, c.rst) IN
  IF rs_south = NULL THEN [S |-> Fail(S, "assert: GetByTile"), c |-> c]
  ELSE [S |-> SetPlatform(S, rs_south, S.rs[c.rs_south_base].platform),
        c |-> [c EXCEPT !.rs_south = rs_south, !.south_tile = @ + c.offset]]

\* One turn of the loop that makes all (even more) southern stops part of
\* the new entry queue.
ClearSouthWalk ==
  /\ At("ClearDriveThrough", "south_walk")
  /\ LET S == St(map, rs, plat, fault) IN
     IF IsDriveThroughRoadStopContinuation(map, call.base_tile, call.south_tile)
     THEN Go(SouthWalkTurn(S, call).S, SouthWalkTurn(S, call).c)
     ELSE Go(S, [call EXCEPT !.pc = "north_walk"])
  /\ UNCHANGED <<veh, removing, tb>>

\* One turn of the loop that finds the other end, the northern most tile.
ClearNorthWalk ==
  /\ At("ClearDriveThrough", "north_walk")
  /\ LET S == St(map, rs, plat, fault) IN
     IF IsDriveThroughRoadStopContinuation(map, call.base_tile, call.north_tile)
     THEN LET rs_north == GetByTile(S, call.north_tile, call.rst) IN
          IF rs_north = NULL THEN Go(Fail(S, "assert: GetByTile"), call)
          ELSE Go(S, [call EXCEPT !.rs_north = rs_north, !.north_tile = @ - call.offset])
     ELSE Go(S, [call EXCEPT !.pc = "rebuild_south"])
  /\ UNCHANGED <<veh, removing, tb>>

\* rs_south_base->Rebuild().
ClearRebuildSouth ==
  /\ At("ClearDriveThrough", "rebuild_south")
  /\ call' = RebuildCall(map, call.rs_south_base, rs[call.rs_south_base].platform,
                         [call EXCEPT !.pc = "assert_base"])
  /\ UNCHANGED <<map, rs, plat, veh, removing, fault, tb>>

\* The assertion on rs_north, and rs_north->Rebuild().
ClearRebuildNorth ==
  /\ At("ClearDriveThrough", "assert_base")
  /\ IF ~rs[call.rs_north].base
     THEN /\ fault' = "assert: HasBit(rs_north->status, RSSFB_BASE_ENTRY)"
          /\ call' = call
     ELSE /\ fault' = fault
          /\ call' = RebuildCall(map, call.rs_north, rs[call.rs_north].platform,
                                 [call EXCEPT !.pc = "reset"])
  /\ UNCHANGED <<map, rs, plat, veh, removing, tb>>

\* Make sure we don't get used for something 'incorrect'; ClearDriveThrough
\* returns and the record waits for its destruction.
ClearReset ==
  /\ At("ClearDriveThrough", "reset")
  /\ Go(Forget(St(map, rs, plat, fault), call.this), NoCall)
  /\ removing' = call.this
  /\ UNCHANGED <<veh, tb>>

\* The kinds of stop built while the operations run step by step.
StepKinds == {k \in DriveThroughKinds : k.st = 1 /\ k.rst = "BUS"}

Steps ==
  \/ MakeAssert
  \/ MakeClassify
  \/ MakeBranch
  \/ MakeMergeLoop
  \/ MakeLength
  \/ ClearAssert
  \/ ClearClassify
  \/ ClearSquare
  \/ ClearBranch
  \/ ClearSouthWalk
  \/ ClearNorthWalk
  \/ ClearRebuildSouth
  \/ ClearRebuildNorth
  \/ ClearReset
  \/ RebuildScan
  \/ RebuildIter
  \/ RebuildStore

NextSteps ==
  \/ \E t \in Buildable : \E k \in KindsAt(t) \cap StepKinds : BeginMake(t, k)
  \/ \E t \in Buildable : BeginClear(t)
  \/ \E t \in Buildable : Destroy(t)
  \/ Steps

\* Stops are built and removed with MakeDriveThrough, ClearDriveThrough and
\* Rebuild running statement by statement.
SpecSteps == Init /\ [][NextSteps]_vars

\* An operation that was entered runs on: no step of it waits for ever.
SpecStepsFair == SpecSteps /\ WF_vars(Steps)

\* ------------------------------------------------------------------ runs
\* A run, said without the walks of the code: u lies in the run of t when
\* both tiles and every tile between them, one axis step apart, carry the
\* same drive-through stop (station, type and axis).
Min(a, b) == IF a < b THEN a ELSE b
Max(a, b) == IF a < b THEN b ELSE a
AxisStep(k) == IF k.axis = "AXIS_X" THEN 1 ELSE MapSizeX
RunOf(m, t) ==
  {u \in Buildable :
     /\ m[u] = m[t]
     /\ \E n \in 0 .. MapSizeX : Max(t, u) - Min(t, u) = n * AxisStep(m[t])
     /\ \A w \in Min(t, u) .. Max(t, u) :
          (\E n \in 0 .. MapSizeX : w - Min(t, u) = n * AxisStep(m[t])) => m[w] = m[t]}
Run(t) == RunOf(map, t)
OnMap(t) == map[t] \in DriveThroughKinds
Stops == {t \in Buildable : OnMap(t)}
BasesOf(tiles) == {u \in tiles : rs[u] # NoStop /\ rs[u].base}
LivePlatforms == {h \in Handles : plat[h].live}
NorthOf(t) == t - AxisStep(map[t])
SouthOf(t) == t + AxisStep(map[t])

NoFault == fault = ""

\* ---------------------------------------------------------------- Textbuf
\* The bytes a text is made of: NUL ends a string, "a" is a printable ASCII
\* letter, "SP" the space, "LF" an ASCII control character, "L" the lead
\* byte and "C" the continuation byte of a character that takes two bytes
\* in UTF-8.
NUL == "NUL"

\* A pointer into the buffer or into the inserted string is its offset; the
\* null pointer among them is NoPos.
NoPos == -1

\* The str argument: the null pointer, or a string of bytes.
NullStr == [null |-> TRUE, bytes |-> <<>>]
Str(s) == [null |-> FALSE, bytes |-> s]

\* The string as it lies in memory, its terminating zero included.
CStr(s) == [i \in 0 .. Len(s) |-> IF i < Len(s) THEN s[i + 1] ELSE NUL]

Uint16(x) == x % (2 ^ 16)

IsUtf8Part(b) == b = "C"

\* Utf8Consume: the character at offset p of s and the offset behind it. A
\* lead byte without its continuation byte, or a stray continuation byte,
\* decodes as "?" of one byte.
Utf8Consume(s, p) ==
  LET two == s[p] = "L" /\ (p + 1) \in DOMAIN s /\ s[p + 1] = "C"
  IN  [c |-> IF two THEN "LC" ELSE IF s[p] \in {"L", "C"} THEN "?" ELSE s[p],
       ptr |-> p + (IF two THEN 2 ELSE 1)]

Utf8CharLen(c) == IF c = "LC" THEN 2 ELSE 1

\* IsValidChar under CS_ALPHANUMERAL, the filter the constructor sets: the
\* printable characters.
IsValidChar(c) == c \in {"a", "SP", "LC", "?"}

\* strlen: the offset of the first zero byte.
StrLen(buf) ==
  LET zeros == {i \in DOMAIN buf : buf[i] = NUL}
  IN  IF zeros = {} THEN NoPos ELSE CHOOSE i \in zeros : \A j \in zeros : i <= j

\* The characters that begin in s at the offsets from up to, but not
\* including, to.
RECURSIVE CountChars(_, _, _)
CountChars(s, from, to) ==
  IF from < to /\ from \in DOMAIN s
  THEN 1 + CountChars(s, Utf8Consume(s, from).ptr, to)
  ELSE 0

\* GetCharPosInString(...).x with every character one unit wide: the
\* characters of the string that lie before offset pos.
GetCharPosInString(buf, pos) == CountChars(buf, 0, Min(pos, StrLen(buf)))

\* memmove / memcpy of n bytes of src, from offset from, to offset dst of
\* buf. A size below zero is a huge size_t, and a range outside either
\* array is out of bounds: undefined behaviour, kept as a fault.
MemMove(X, dst, src, from, n) ==
  IF X.fault # "" THEN X
  ELSE IF n < 0 \/ dst < 0 \/ from < 0
          \/ dst + n > X.tb.capacity \/ from + n > Cardinality(DOMAIN src)
       THEN [X EXCEPT !.fault = "ub: memmove out of bounds"]
       ELSE [X EXCEPT !.tb.buffer =
               [i \in DOMAIN X.tb.buffer |->
                  IF dst <= i /\ i < dst + n THEN src[from + i - dst]
                  ELSE X.tb.buffer[i]]]

\* DefaultStringIterator::SetCurPosition by way of UpdateStringIter: the
\* position must lie inside the string, and one inside a UTF-8 sequence is
\* moved back to the lead byte.
RECURSIVE Sanitize(_, _)
Sanitize(buf, pos) ==
  IF pos > 0 /\ IsUtf8Part(buf[pos]) THEN Sanitize(buf, pos - 1) ELSE pos

\* The iterator keeps the length of the string it was last given
\* (iter_len) and its own position (cur_pos).
SetCurPosition(X, pos) ==
  IF X.fault # "" THEN X
  ELSE IF pos > X.tb.iter_len
       THEN [X EXCEPT !.fault = "assert: pos <= this->len"]
       ELSE [X EXCEPT !.tb.cur_pos = Sanitize(X.tb.buffer, pos)]

UpdateStringIter(X) ==
  LET SetString == IF X.fault # "" THEN X
                   ELSE [X EXCEPT !.tb.iter_len = StrLen(X.tb.buffer),
                                  !.tb.cur_pos = 0]
      X1 == SetCurPosition(SetString, X.tb.caretpos)
  IN  IF X1.fault # "" THEN X1
      ELSE [X1 EXCEPT !.tb.caretpos = X1.tb.cur_pos]

\* Of the pixel fields only marklength is kept: it is the one the code
\* reads back, in InsertString.
UpdateMarkedText(X) ==
  IF X.fault # "" THEN X
  ELSE [X EXCEPT !.tb.marklength =
          IF X.tb.markend # 0
          THEN GetCharPosInString(X.tb.buffer, X.tb.markend)
               - GetCharPosInString(X.tb.buffer, X.tb.markpos)
          ELSE 0]

DeleteText(X, from, to, update) ==
  LET T == X.tb
      c == CountChars(T.buffer, from, to)
      X1 == MemMove(X, from, T.buffer, to, T.len + 1 - to)
      X2 == [X1 EXCEPT !.tb.len = Uint16(T.len - (to - from)),
                       !.tb.chars = Uint16(T.chars - c),
                       !.tb.caretpos =
                          IF T.caretpos > from
                          THEN IF T.caretpos <= to THEN from
                               ELSE Uint16(T.caretpos - (to - from))
                          ELSE T.caretpos]
  IN  IF X1.fault # "" THEN X1
      ELSE IF update THEN UpdateMarkedText(UpdateStringIter(X2))
      ELSE X2

DiscardMarkedText(X, update) ==
  IF X.tb.markend = 0 THEN X
  ELSE LET X1 == DeleteText(X, X.tb.markpos, X.tb.markend, update)
       IN  IF X1.fault # "" THEN X1
           ELSE [X1 EXCEPT !.tb.markpos = 0, !.tb.markend = 0,
                           !.tb.marklength = 0]

\* The loop of InsertString that measures what of str can go in: it stops
\* at the end of str, at a character the filter refuses, and at the first
\* character that no longer fits the bytes or the characters allowed.
RECURSIVE InsertStringScan(_, _, _, _, _, _, _)
InsertStringScan(T, s, ptr, bytes, chars, insertpos, caret) ==
  LET u == Utf8Consume(s, ptr)
      len == Utf8CharLen(u.c)
  IN  IF \/ u.c = NUL
         \/ ~IsValidChar(u.c)
         \/ T.len + bytes + len >= T.capacity
         \/ T.chars + chars + 1 > T.max_chars
      THEN [tb |-> T, bytes |-> bytes, chars |-> chars]
      ELSE InsertStringScan(
             IF u.ptr = caret
             THEN [T EXCEPT !.caretpos = Uint16(insertpos + bytes + len)]
             ELSE T,
             s, u.ptr, bytes + len, chars + 1, insertpos, caret)

Returned(X, r) == [tb |-> X.tb, fault |-> X.fault, ret |-> r]

\* The part of InsertString behind the measuring loop, for bytes > 0.
InsertStringStore(X, m, str, marked, caret, insertpos) ==
  LET T1 == IF marked
            THEN [m.tb EXCEPT !.markpos = insertpos,
                              !.markend = Uint16(insertpos + m.bytes)]
            ELSE m.tb
      X1 == MemMove([X EXCEPT !.tb = T1], insertpos + m.bytes, T1.buffer,
                    insertpos, T1.len + 1 - insertpos)
      X2 == MemMove(X1, insertpos, CStr(str.bytes), 0, m.bytes)
      X3 == [X2 EXCEPT !.tb.len = Uint16(T1.len + m.bytes),
                       !.tb.chars = Uint16(T1.chars + m.chars),
                       !.tb.caretpos =
                          IF ~marked /\ caret = NoPos
                          THEN Uint16(T1.caretpos + m.bytes)
                          ELSE T1.caretpos]
      X4 == IF X3.tb.len >= X3.tb.capacity
            THEN [X3 EXCEPT !.fault = "assert: len < capacity"]
            ELSE IF X3.tb.chars > X3.tb.max_chars
            THEN [X3 EXCEPT !.fault = "assert: chars <= max_chars"]
            ELSE [X3 EXCEPT !.tb.buffer[X3.tb.len] = NUL]
  IN  IF X2.fault # "" THEN X2
      ELSE UpdateMarkedText(UpdateStringIter(X4))

InsertString(T, str, marked, caret, insert_location, replacement_end) ==
  LET X == [tb |-> T, fault |-> ""]
      insertpos == IF insert_location # NoPos THEN Uint16(insert_location)
                   ELSE IF marked /\ T.marklength # 0 THEN T.markpos
                   ELSE T.caretpos
      X1 == IF insert_location # NoPos
            THEN IF replacement_end # NoPos
                 THEN DeleteText(X, insertpos, Uint16(replacement_end),
                                 str = NullStr)
                 ELSE X
            ELSE IF marked THEN DiscardMarkedText(X, str = NullStr)
                 ELSE X
      m == InsertStringScan(X1.tb, CStr(str.bytes), 0, 0, 0, insertpos, caret)
  IN  IF insert_location # NoPos /\ insertpos > T.len + 1
      THEN Returned(X, FALSE)
      ELSE IF X1.fault # "" \/ str = NullStr THEN Returned(X1, FALSE)
      ELSE IF m.bytes = 0 THEN Returned([X1 EXCEPT !.tb = m.tb], FALSE)
      ELSE LET X2 == InsertStringStore(X1, m, str, marked, caret, insertpos)
           IN  Returned(X2, X2.fault = "")

UINT16_MAX == 2 ^ 16 - 1

\* DeleteAll: the buffer filled with zero bytes, one character (the
\* terminating zero), caret and marks at 0.
DeleteAll(T) ==
  UpdateStringIter(
    [tb |-> [T EXCEPT !.buffer = [i \in 0 .. T.capacity - 1 |-> NUL],
                      !.len = 0, !.chars = 1, !.caretpos = 0,
                      !.markpos = 0, !.markend = 0, !.marklength = 0],
     fault |-> ""]).tb

\* The constructor; op and ret name the last call made and what it
\* returned.
Textbuf(max_bytes, max_chars) ==
  DeleteAll([buffer |-> <<>>, len |-> 0, chars |-> 0, caretpos |-> 0,
             markpos |-> 0, markend |-> 0, marklength |-> 0,
             iter_len |-> 0, cur_pos |-> 0,
             capacity |-> max_bytes,
             max_chars |-> IF max_chars = UINT16_MAX THEN max_bytes
                           ELSE max_chars,
             op |-> "Textbuf", ret |-> FALSE])

\* ------------------------------------------------- Textbuf: keys and caret
\* The sentinel of the iterators; its cast to uint16 is UINT16_MAX.
END == UINT16_MAX

IsWhitespace(c) == c = "SP"

\* Utf8Decode: the length of the character at offset p of buf.
Utf8Decode(buf, p) == Utf8Consume(buf, p).ptr - p

\* Utf8PrevChar: the offset of the character before offset p.
RECURSIVE Utf8PrevChar(_, _)
Utf8PrevChar(buf, p) ==
  IF p <= 0 THEN 0
  ELSE IF p - 1 > 0 /\ IsUtf8Part(buf[p - 1]) THEN Utf8PrevChar(buf, p - 1)
  ELSE p - 1

\* DefaultStringIterator::Next: the new position, or END, and the iterator.
\* For ITER_WORD there are two loops: over the word, then over the
\* whitespace behind it.
IterNext(T, word) ==
  LET RECURSIVE NextWordEnd(_)
      NextWordEnd(pos) ==
        IF pos < T.iter_len /\ ~IsWhitespace(Utf8Consume(T.buffer, pos).c)
        THEN NextWordEnd(pos + Utf8Decode(T.buffer, pos))
        ELSE pos
      RECURSIVE NextWordStart(_)
      NextWordStart(pos) ==
        IF pos < T.iter_len /\ IsWhitespace(Utf8Consume(T.buffer, pos).c)
        THEN NextWordStart(pos + Utf8Decode(T.buffer, pos))
        ELSE pos
  IN  IF T.cur_pos >= T.iter_len THEN [pos |-> END, tb |-> T]
      ELSE LET p == IF word THEN NextWordStart(NextWordEnd(T.cur_pos))
                    ELSE T.cur_pos + Utf8Decode(T.buffer, T.cur_pos)
           IN  [pos |-> p, tb |-> [T EXCEPT !.cur_pos = p]]

\* DefaultStringIterator::Prev. For ITER_WORD there are two loops: back
\* over the whitespace, then back over the word.
IterPrev(T, word) ==
  LET RECURSIVE PrevSpaces(_)
      PrevSpaces(s) ==
        LET q == Utf8PrevChar(T.buffer, s) IN
        IF q > 0 /\ IsWhitespace(Utf8Consume(T.buffer, q).c) THEN PrevSpaces(q) ELSE q
      RECURSIVE PrevWord(_)
      PrevWord(s) ==
        IF s > 0 /\ ~IsWhitespace(Utf8Consume(T.buffer, s).c)
        THEN PrevWord(Utf8PrevChar(T.buffer, s))
        ELSE s
  IN  IF T.cur_pos = 0 THEN [pos |-> END, tb |-> T]
      ELSE LET s == PrevWord(PrevSpaces(T.cur_pos))
               p == IF word
                    THEN IF IsWhitespace(Utf8Consume(T.buffer, s).c)
                         THEN Utf8Consume(T.buffer, s).ptr ELSE s
                    ELSE Utf8PrevChar(T.buffer, T.cur_pos)
           IN  [pos |-> p, tb |-> [T EXCEPT !.cur_pos = p]]

CanDelChar(T, backspace) ==
  IF backspace THEN T.caretpos # 0 ELSE T.caretpos < T.len

DeleteChar(T, keycode) ==
  LET X == [tb |-> T, fault |-> ""]
      word == keycode.ctrl
      backspace == keycode.code = "WKC_BACKSPACE"
      it == IF backspace THEN IterPrev(T, word) ELSE IterNext(T, word)
      len == IF ~word /\ backspace
             THEN Utf8Decode(T.buffer, Utf8PrevChar(T.buffer, T.caretpos))
             ELSE IF backspace THEN Uint16(T.caretpos - Uint16(it.pos))
             ELSE Uint16(Uint16(it.pos) - T.caretpos)
      s == IF ~word /\ backspace THEN Utf8PrevChar(T.buffer, T.caretpos)
           ELSE IF backspace THEN T.caretpos - len
           ELSE T.caretpos
      c == IF ~word /\ backspace THEN 1 ELSE CountChars(T.buffer, s, s + len)
      T1 == IF ~word /\ backspace THEN T ELSE it.tb
      X1 == IF s < 0 \/ s + len > T.capacity
            THEN [X EXCEPT !.fault = "ub: read out of bounds"]
            ELSE MemMove([X EXCEPT !.tb = [T1 EXCEPT !.chars = Uint16(T.chars - c)]],
                         s, T.buffer, s + len, T.len + 1 - s - len)
      X2 == [X1 EXCEPT !.tb.len = Uint16(T.len - len),
                       !.tb.caretpos = IF backspace THEN Uint16(T.caretpos - len)
                                       ELSE T.caretpos]
  IN  IF keycode.code \notin {"WKC_BACKSPACE", "WKC_DELETE"} THEN Returned(X, FALSE)
      ELSE IF ~CanDelChar(T, backspace) THEN Returned(X, FALSE)
      ELSE IF X1.fault # "" THEN Returned(X1, FALSE)
      ELSE LET X3 == UpdateMarkedText(UpdateStringIter(X2))
           IN  Returned(X3, X3.fault = "")

InsertChar(T, key) ==
  LET X == [tb |-> T, fault |-> ""]
      len == Utf8CharLen(key)
      Utf8Encode == IF key = "LC" THEN <<"L", "C">> ELSE <<key>>
      X1 == MemMove(X, T.caretpos + len, T.buffer, T.caretpos, T.len + 1 - T.caretpos)
      X2 == MemMove(X1, T.caretpos, CStr(Utf8Encode), 0, len)
      X3 == [X2 EXCEPT !.tb.chars = Uint16(T.chars + 1),
                       !.tb.len = Uint16(T.len + len),
                       !.tb.caretpos = Uint16(T.caretpos + len)]
  IN  IF T.len + len < T.capacity /\ T.chars + 1 <= T.max_chars
      THEN IF X2.fault # "" THEN Returned(X2, FALSE)
           ELSE LET X4 == UpdateMarkedText(UpdateStringIter(X3))
                IN  Returned(X4, X4.fault = "")
      ELSE Returned(X, FALSE)

\* InsertClipboard: with no clipboard text nothing is inserted; else the
\* text goes in at the caret.
InsertClipboard(T, clip) ==
  IF clip = NullStr THEN Returned([tb |-> T, fault |-> ""], FALSE)
  ELSE InsertString(T, clip, FALSE, NoPos, NoPos, NoPos)

MovePos(T, keycode) ==
  LET X == [tb |-> T, fault |-> ""]
  IN  CASE keycode.code = "WKC_LEFT" ->
             IF T.caretpos = 0 THEN Returned(X, FALSE)
             ELSE LET it == IterPrev(T, keycode.ctrl) IN
                  IF it.pos = END THEN Returned(X, TRUE)
                  ELSE Returned([X EXCEPT !.tb = [it.tb EXCEPT !.caretpos = Uint16(it.pos)]], TRUE)
        [] keycode.code = "WKC_RIGHT" ->
             IF T.caretpos >= T.len THEN Returned(X, FALSE)
             ELSE LET it == IterNext(T, keycode.ctrl) IN
                  IF it.pos = END THEN Returned(X, TRUE)
                  ELSE Returned([X EXCEPT !.tb = [it.tb EXCEPT !.caretpos = Uint16(it.pos)]], TRUE)
        [] keycode.code = "WKC_HOME" /\ ~keycode.ctrl ->
             LET X1 == SetCurPosition([X EXCEPT !.tb.caretpos = 0], 0)
             IN  Returned(X1, X1.fault = "")
        [] keycode.code = "WKC_END" /\ ~keycode.ctrl ->
             LET X1 == SetCurPosition([X EXCEPT !.tb.caretpos = T.len], T.len)
             IN  Returned(X1, X1.fault = "")
        [] OTHER -> Returned(X, FALSE)

\* HandleKeyPress: ret is what the operation called returned (edited).
HandleKeyPress(T, key, keycode, clip) ==
  LET X == [tb |-> T, fault |-> ""]
  IN  CASE keycode.code \in {"WKC_ESC", "WKC_RETURN"} /\ ~keycode.ctrl -> Returned(X, FALSE)
        [] keycode.code = "V" /\ keycode.ctrl -> InsertClipboard(T, clip)
        [] keycode.code = "U" /\ keycode.ctrl -> Returned([X EXCEPT !.tb = DeleteAll(T)], TRUE)
        [] keycode.code \in {"WKC_BACKSPACE", "WKC_DELETE"} -> DeleteChar(T, keycode)
        [] \/ keycode.code \in {"WKC_LEFT", "WKC_RIGHT"}
           \/ keycode.code \in {"WKC_END", "WKC_HOME"} /\ ~keycode.ctrl ->
             LET R == MovePos(T, keycode) IN Returned(R, FALSE)
        [] OTHER -> IF IsValidChar(key) THEN InsertChar(T, key) ELSE Returned(X, FALSE)

\* The strings handed to InsertString, each well-formed UTF-8.
TextStrings ==
  {<<>>, <<"a">>, <<"L", "C">>, <<"LF">>}

\* The offsets of T's text where a character begins, the end included.
Boundaries(T) ==
  {p \in 0 .. T.len : ~IsUtf8Part(T.buffer[p])}

Construct(max_chars) ==
  /\ tb = NoText /\ fault = ""
  /\ tb' = Textbuf(MaxBytes, max_chars)
  /\ UNCHANGED <<map, rs, plat, veh, removing, fault, call>>

\* What UpdateSize asserts of the buffer: the length field is the length of
\* the string, and it lies below the capacity.
Coherent(T) == T.len = StrLen(T.buffer) /\ T.len < T.capacity

\* Calls are followed up to the first state that is not coherent: such a
\* state is kept, and no call is made from it.
CallInsertString(str, marked, caret, insert_location, replacement_end) ==
  /\ tb # NoText /\ fault = "" /\ Coherent(tb)
  /\ LET R == InsertString(tb, str, marked, caret, insert_location,
                           replacement_end)
     IN  /\ tb' = [R.tb EXCEPT !.op = "InsertString", !.ret = R.ret]
         /\ fault' = R.fault
  /\ UNCHANGED <<map, rs, plat, veh, removing, call>>

NextText ==
  \/ \E max_chars \in {MaxBytes - 1, MaxBytes, UINT16_MAX} :
       Construct(max_chars)
  \/ /\ tb # NoText /\ Coherent(tb)
     /\ \E str \in {NullStr} \cup {Str(s) : s \in TextStrings},
           marked \in BOOLEAN,
           caret \in {NoPos, 1},
           insert_location \in {NoPos} \cup Boundaries(tb)
                                 \cup {tb.len + 1, tb.len + 2},
           replacement_end \in {NoPos} \cup Boundaries(tb) :
         /\ replacement_end # NoPos
              => IF insert_location = NoPos THEN replacement_end = tb.len
                 ELSE insert_location <= replacement_end
         /\ CallInsertString(str, marked, caret, insert_location,
                             replacement_end)

SpecText == Init /\ [][NextText]_vars

\* ------------------------------------------------------- Textbuf: editing
\* Every editing operation is called on a constructed Textbuf, with the
\* characters typed (KeyChars), the key codes pressed (a key and whether
\* WKC_CTRL is held) and the clipboard texts below. As before, calls are
\* followed up to the first state that is not coherent. The last call and
\* its return value are not recorded here: op and ret stay as the
\* constructor left them.
NextEdit ==
  LET KeyChars == {"a", "SP", "LC", "LF"}
      Key(code, ctrl) == [code |-> code, ctrl |-> ctrl]
      DeleteKeys == {Key(code, ctrl) : code \in {"WKC_BACKSPACE", "WKC_DELETE"},
                                       ctrl \in BOOLEAN}
      MoveKeys ==
        {Key(code, ctrl) : code \in {"WKC_LEFT", "WKC_RIGHT"}, ctrl \in BOOLEAN}
          \cup {Key("WKC_HOME", FALSE), Key("WKC_END", FALSE)}
      KeyCodes ==
        DeleteKeys \cup MoveKeys
          \cup {Key("WKC_ESC", FALSE), Key("V", TRUE), Key("U", TRUE),
                Key("OTHER", FALSE)}
      ClipTexts == {NullStr} \cup {Str(s) : s \in TextStrings}
      Called(R) == tb' = R.tb /\ fault' = R.fault
  IN
  \/ \E max_chars \in {MaxBytes - 1, MaxBytes, UINT16_MAX} : Construct(max_chars)
  \/ /\ tb # NoText /\ fault = "" /\ Coherent(tb)
     /\ UNCHANGED <<map, rs, plat, veh, removing, call>>
     /\ \/ \E str \in {NullStr} \cup {Str(s) : s \in TextStrings},
              marked \in BOOLEAN,
              caret \in {NoPos, 1},
              insert_location \in {NoPos} \cup Boundaries(tb),
              replacement_end \in {NoPos} \cup Boundaries(tb) :
            /\ replacement_end # NoPos
                 => insert_location # NoPos /\ insert_location <= replacement_end
            /\ insert_location # NoPos => caret = NoPos
            /\ Called(InsertString(tb, str, marked, caret, insert_location,
                                   replacement_end))
        \/ \E key \in KeyChars : Called(InsertChar(tb, key))
        \/ \E keycode \in DeleteKeys \cup {Key("WKC_ESC", FALSE)} :
             Called(DeleteChar(tb, keycode))
        \/ \E keycode \in MoveKeys \cup {Key("WKC_ESC", FALSE)} :
             Called(MovePos(tb, keycode))
        \/ Called([tb |-> DeleteAll(tb), fault |-> ""])
        \/ \E clip \in ClipTexts : Called(InsertClipboard(tb, clip))
        \/ \E update \in BOOLEAN :
             Called(DiscardMarkedText([tb |-> tb, fault |-> ""], update))
        \/ \E keycode \in KeyCodes :
             \E key \in IF keycode.code = "OTHER" THEN KeyChars ELSE {"a"},
                clip \in IF keycode.code = "V" THEN ClipTexts ELSE {NullStr} :
               Called(HandleKeyPress(tb, key, keycode, clip))

SpecEdit == Init /\ [][NextEdit]_vars

\* --------------------------------------------------------------- claims
\* C1: in every reachable state every run holds exactly one RoadStop whose
\* base flag (RSSFB_BASE_ENTRY) is set.
C1_OneBasePerRun ==
  /\ fault = ""
  /\ \A t \in Stops : Cardinality(BasesOf(Run(t))) = 1

\* A stop was just removed north of a run of two or more tiles, whose
\* northernmost tile took the base flag over.
C1_Witness ==
  /\ removing # NULL
  /\ \E t \in Stops : /\ Cardinality(Run(t)) >= 2
                       /\ rs[t].base
                       /\ t = removing + 1

\* C2: in every reachable state the length of each run's Platform is
\* TILE_SIZE times the number of tiles of the run (so never zero or less).
C2_LengthIsTileCount ==
  \A t \in Stops :
    /\ rs[t].platform # NULL
    /\ plat[rs[t].platform].live
    /\ plat[rs[t].platform].length = TILE_SIZE * Cardinality(Run(t))
    /\ plat[rs[t].platform].length > 0

\* Two runs lie on the two sides of a stop that was just removed, and a run
\* of two tiles is among them.
C2_Witness ==
  /\ removing # NULL
  /\ \E t \in Stops, u \in Stops :
       /\ t = removing - 1 /\ u = removing + 1 /\ map[t] = map[u]
       /\ Cardinality(Run(t)) + Cardinality(Run(u)) >= 3

\* C3: in every reachable state all RoadStops of one run reference the same
\* Platform object, which is not null, and RoadStops of two different runs
\* never reference the same Platform object.
C3_OnePlatformPerRun ==
  \A t \in Stops :
    /\ rs[t].platform # NULL
    /\ \A u \in Stops : (rs[u].platform = rs[t].platform) <=> (u \in Run(t))

\* Two runs of two tiles each touch (stops of different stations).
C3_Witness ==
  \E t \in Stops, u \in Stops :
    /\ u = t + 1 /\ map[t] # map[u]
    /\ Cardinality(Run(t)) = 2 /\ Cardinality(Run(u)) = 2
    /\ rs[t].platform # rs[u].platform

\* The vehicles Rebuild would count on tile t.
CountedOn(t) == {x \in VehiclesOnTile(veh, t) : InRoadStop(veh[x])}
Northmost(tiles) == CHOOSE t \in tiles : \A u \in tiles : t <= u

OccupiedEndDetached(t) ==
  /\ OnMap(t) /\ map'[t] = Void
  /\ CountedOn(t) # {}
  /\ (map[NorthOf(t)] = map[t]) # (map[SouthOf(t)] = map[t])

MergeStep(t) ==
  /\ map[t] = Void /\ map'[t] \in DriveThroughKinds
  /\ map[t - AxisStep(map'[t])] = map'[t]
  /\ map[t + AxisStep(map'[t])] = map'[t]

\* C5: attaching a tile between two runs of m and n tiles yields one run of
\* m + n + 1 tiles served by one Platform whose length is
\* TILE_SIZE * (m + n + 1) and whose occupied_east and occupied_west are
\* the sums of those of the two Platforms before the step.
C5_MergeSumsRuns ==
  [][\A t \in Buildable :
       MergeStep(t) =>
         LET n == t - AxisStep(map'[t])
             s == t + AxisStep(map'[t])
             pn == plat[rs[n].platform]
             ps == plat[rs[s].platform]
             run == RunOf(map', t)
             h == rs'[t].platform
         IN  /\ fault' = ""
             /\ Cardinality(run) = Cardinality(Run(n)) + Cardinality(Run(s)) + 1
             /\ h # NULL /\ plat'[h].live
             /\ \A u \in run : rs'[u].platform = h
             /\ plat'[h].length = TILE_SIZE * (Cardinality(Run(n)) + Cardinality(Run(s)) + 1)
             /\ plat'[h].occupied_east = pn.occupied_east + ps.occupied_east
             /\ plat'[h].occupied_west = pn.occupied_west + ps.occupied_west]_vars

\* One run of four tiles with a vehicle at each end, both counted in one
\* Platform, whose southern part had a Platform of its own that is freed.
C5_Witness ==
  /\ removing = NULL
  /\ \E t \in Stops :
       /\ Cardinality(Run(t)) = 4 /\ t = Northmost(Run(t))
       /\ CountedOn(t) # {} /\ CountedOn(t + 3) # {}
       /\ plat[rs[t].platform].occupied_east + plat[rs[t].platform].occupied_west
            = SumLength(Vehicles)
       /\ \E h \in Handles : plat[h].freed

\* The step removes the stop of tile t, which has a tile of its run on
\* either side.
SplitStep(t) ==
  /\ OnMap(t) /\ map'[t] = Void
  /\ map[NorthOf(t)] = map[t] /\ map[SouthOf(t)] = map[t]

\* In the state after the step the run of tile t has cnt tiles, one base
\* tile, and a live Platform of its own with the length of the run and the
\* occupancy Rebuild computes from the northernmost tile of the run.
SubRunRight(t, cnt) ==
  LET run == RunOf(map', t)
      h == rs'[t].platform
      temp == Rebuild(map', veh', Northmost(run))
  IN  /\ Cardinality(run) = cnt
      /\ Cardinality({u \in run : rs'[u].base}) = 1
      /\ h # NULL /\ plat'[h].live
      /\ \A u \in run : rs'[u].platform = h
      /\ plat'[h].length = TILE_SIZE * cnt
      /\ temp.ok
      /\ plat'[h].occupied_east = temp.occupied_east
      /\ plat'[h].occupied_west = temp.occupied_west

\* C6: detaching the k-th tile (1 < k < L) of a run of L tiles yields two
\* runs of k - 1 and L - k tiles, each with a Platform of its own, one base
\* tile, length TILE_SIZE times its tiles and the occupancy Rebuild computes.
C6_SplitYieldsTwoRuns ==
  [][\A t \in Buildable :
       SplitStep(t) =>
         LET L == Cardinality(Run(t))
             k == Cardinality({u \in Run(t) : u < t}) + 1
         IN  /\ fault' = ""
             /\ SubRunRight(NorthOf(t), k - 1)
             /\ SubRunRight(SouthOf(t), L - k)
             /\ rs'[NorthOf(t)].platform # rs'[SouthOf(t)].platform]_vars

\* The second tile of a run of four was just removed; a vehicle stands on
\* each side and is counted by the Platform of its side only.
C6_Witness ==
  /\ removing # NULL
  /\ \E n \in Stops, s \in Stops :
       /\ n = removing - 1 /\ s = removing + 1 /\ map[n] = map[s]
       /\ Cardinality(Run(n)) = 1 /\ Cardinality(Run(s)) = 2
       /\ CountedOn(n) # {} /\ CountedOn(s + 1) # {}
       /\ rs[n].platform # rs[s].platform
       /\ plat[rs[n].platform].occupied_east + plat[rs[n].platform].occupied_west
            = SumLength(CountedOn(n))
       /\ plat[rs[s].platform].occupied_east + plat[rs[s].platform].occupied_west
            = SumLength(CountedOn(s + 1))

\* The step builds a stop on tile t that has no tile of its kind on either
\* side along its axis.
LoneAttachStep(t) ==
  /\ map[t] = Void /\ map'[t] \in DriveThroughKinds
  /\ map[t - AxisStep(map'[t])] # map'[t]
  /\ map[t + AxisStep(map'[t])] # map'[t]

\* C7: attaching a tile without a continuation neighbour creates exactly
\* one new Platform, of length TILE_SIZE and with no occupancy, marks the
\* tile as base, and creates or frees no other Platform.
C7_LoneAttachMakesPlatform ==
  [][\A t \in Buildable :
       LoneAttachStep(t) =>
         LET h == rs'[t].platform IN
         /\ fault' = ""
         /\ h # NULL /\ ~plat[h].live
         /\ plat'[h].live
         /\ plat'[h].length = TILE_SIZE
         /\ plat'[h].occupied_east = 0 /\ plat'[h].occupied_west = 0
         /\ rs'[t].base
         /\ \A g \in Handles \ {h} : plat'[g] = plat[g]
         /\ Cardinality({g \in Handles : plat'[g].live}) = Cardinality(LivePlatforms) + 1
         /\ \A u \in Buildable \ {t} : rs'[u] = rs[u]]_vars

\* A run of one tile, with its own Platform of one tile's length, stands
\* between a bay stop and a stop of another station.
C7_Witness ==
  /\ removing = NULL
  /\ map[Corner] = BayKind
  /\ OnMap(Corner + 1) /\ OnMap(Corner + 2) /\ map[Corner + 1] # map[Corner + 2]
  /\ rs[Corner + 1].base
  /\ plat[rs[Corner + 1].platform].length = TILE_SIZE
  /\ rs[Corner + 1].platform # rs[Corner + 2].platform

\* The step removes the stop of tile t, which has no tile of its run on
\* either side.
SoleDetachStep(t) ==
  /\ OnMap(t) /\ map'[t] = Void
  /\ map[NorthOf(t)] # map[t] /\ map[SouthOf(t)] # map[t]

\* C8: detaching the sole tile of a run frees the run's Platform: no
\* RoadStop references it afterwards and there is exactly one live
\* Platform less.
C8_SoleDetachFreesPlatform ==
  [][\A t \in Buildable :
       SoleDetachStep(t) =>
         LET h == rs[t].platform IN
         /\ fault' = ""
         /\ plat[h].live /\ ~plat'[h].live /\ plat'[h].freed
         /\ \A u \in Buildable : rs'[u] # NoStop => rs'[u].platform # h
         /\ {g \in Handles : plat'[g].live} = LivePlatforms \ {h}
         /\ Cardinality({g \in Handles : plat'[g].live}) = Cardinality(LivePlatforms) - 1]_vars

\* A stop of the row with no stop on either side was just removed and its
\* Platform freed, while another run still has its Platform.
C8_Witness ==
  /\ removing \in Row \ {Corner}
  /\ map[removing - 1] = Void /\ map[removing + 1] = Void
  /\ \E h \in Handles : plat[h].freed /\ ~plat[h].live
  /\ LivePlatforms # {}

\* C9: after ClearDriveThrough, whichever of its four cases applied, the
\* detached RoadStop has its base flag cleared and its platform pointer
\* null, which is what MakeDriveThrough asserts on entry.
C9_DetachedIsReset ==
  removing # NULL =>
    /\ fault = ""
    /\ rs[removing] # NoStop
    /\ ~rs[removing].base
    /\ rs[removing].platform = NULL

\* The base tile of a run of three was just removed: its southern
\* neighbour is the base now and the record removed is reset.
C9_Witness ==
  /\ removing # NULL /\ rs[removing].platform = NULL
  /\ OnMap(removing + 1)
  /\ Cardinality(Run(removing + 1)) = 3
  /\ rs[removing + 1].base
  /\ rs[removing + 1].st = rs[removing].st

\* C10: no RoadStop record, attached or waiting for its destruction, ever
\* points to a Platform that has been freed; no freed Platform is freed
\* again or written to; and a record that is destroyed does not own a
\* Platform any more.
C10_NoDanglingPlatform ==
  /\ fault = ""
  /\ \A t \in Buildable :
       (rs[t] # NoStop /\ rs[t].platform # NULL) => plat[rs[t].platform].live
  /\ removing # NULL => ~(rs[removing].base /\ rs[removing].platform # NULL)

\* A Platform has been freed and a record waits for its destruction beside
\* a run of three tiles that share one live Platform.
C10_Witness ==
  /\ removing # NULL
  /\ \E h \in Handles : plat[h].freed /\ ~plat[h].live
  /\ \E t \in Stops : /\ Cardinality(Run(t)) = 3
                       /\ \A u \in Run(t) : rs[u].platform = rs[t].platform
                       /\ plat[rs[t].platform].live

\* The total cached length of a set of vehicles.
RECURSIVE LengthOf(_)
LengthOf(xs) ==
  IF xs = {} THEN 0
  ELSE LET x == CHOOSE y \in xs : TRUE IN CachedLen(x) + LengthOf(xs \ {x})

\* The vehicles that, after the step, stand in a stop on one of the tiles
\* heading d.
StandingAfter(tiles, d) ==
  {x \in Vehicles : /\ veh'[x] # NoVeh
                    /\ veh'[x].tile \in tiles
                    /\ veh'[x].in_road_stop
                    /\ veh'[x].direction = d}

\* C11: when the removal of a middle tile splits a run in which vehicles
\* are parked, the Platform of each of the two runs that result holds in
\* occupied_east the lengths of the vehicles standing on that run's own
\* tiles heading along the run, in occupied_west those heading against it,
\* and nothing of any other vehicle.
C11_SplitCountsOwnVehicles ==
  [][\A t \in Buildable :
       SplitStep(t) =>
         \A side \in {NorthOf(t), SouthOf(t)} :
           LET run == RunOf(map', side)
               h == rs'[side].platform
               forward == DiagDirToDir(AxisToDiagDir(map'[side].axis))
           IN  /\ fault' = ""
               /\ t \notin run
               /\ h # NULL /\ plat'[h].live
               /\ plat'[h].occupied_east = LengthOf(StandingAfter(run, forward))
               /\ plat'[h].occupied_west = LengthOf(StandingAfter(run, ReverseDir(forward)))]_vars

\* T2 of the run T1, T2, T3 was just removed; rv1 stands on T1 heading
\* along the run and rv2 on T3 heading against it: the Platform of T1 holds
\* the length of rv1 in occupied_east only, that of T3 the length of rv2 in
\* occupied_west only.
C11_Witness ==
  /\ removing # NULL
  /\ \E n \in Stops, s \in Stops :
       /\ n = removing - 1 /\ s = removing + 1 /\ map[n] = map[s]
       /\ Cardinality(Run(n)) = 1 /\ Cardinality(Run(s)) = 1
       /\ veh["rv1"] # NoVeh /\ veh["rv1"].tile = n /\ veh["rv1"].direction = "DIR_SW"
       /\ veh["rv2"] # NoVeh /\ veh["rv2"].tile = s /\ veh["rv2"].direction = "DIR_NE"
       /\ rs[n].platform # rs[s].platform
       /\ plat[rs[n].platform].occupied_east = CachedLen("rv1")
       /\ plat[rs[n].platform].occupied_west = 0
       /\ plat[rs[s].platform].occupied_east = 0
       /\ plat[rs[s].platform].occupied_west = CachedLen("rv2")

\* C12: MakeDriveThrough on a RoadStop whose platform pointer is not null,
\* and ClearDriveThrough on a RoadStop whose platform pointer is null, each
\* end in a failed assertion with no RoadStop, Platform or map tile
\* changed; and nothing runs after a failed assertion.
C12_PreconditionFatal ==
  [][/\ fault = ""
     /\ \A t \in Buildable :
          /\ MakeAgain(t) =>
               /\ fault' = "assert: platform == NULL"
               /\ map' = map /\ rs' = rs /\ plat' = plat
          /\ ClearAgain(t) =>
               /\ fault' = "assert: platform != NULL"
               /\ map' = map /\ rs' = rs /\ plat' = plat]_vars

\* MakeDriveThrough was called on the middle stop of a run of three and
\* stopped in its assertion: the run still has its Platform of three tiles.
C12_Witness ==
  /\ fault = "assert: platform == NULL"
  /\ \E t \in Stops :
       /\ Cardinality(Run(t)) = 3 /\ t = Northmost(Run(t)) /\ rs[t].base
       /\ \A u \in Run(t) : rs[u].platform = rs[t].platform
       /\ plat[rs[t].platform].live
       /\ plat[rs[t].platform].length = 3 * TILE_SIZE

\* The positions of the list of the running GetByTile whose record has the
\* xy asked for.
Matching == {i \in 1 .. Len(call.list) : call.list[i] = call.tile}

StandingOnRun(tile) ==
  {x \in Vehicles : veh[x] # NoVeh /\ (veh[x].tile \in Run(tile) \/ veh[x].tail \in Run(tile))}
Parked(tile) ==
  {x \in StandingOnRun(tile) :
     veh[x].type = "VEH_ROAD" /\ veh[x].primary /\ ~veh[x].crashed /\ veh[x].in_road_stop}
Forward(tile) == IF map[tile].axis = "AXIS_X" THEN "DIR_SW" ELSE "DIR_SE"
InList(list) == {list[i] : i \in 1 .. Len(list)}

\* C14: when Rebuild stores its result it has counted a vehicle found on
\* the run if and only if it is a road vehicle, primary, not crashed and in
\* a road stop; occupied_east is the total length of the counted vehicles
\* heading forward along the run and occupied_west that of those heading the
\* reverse way; no counted vehicle heads any other way.
C14_RebuildCountsParked ==
  [][InRebuild("store") =>
       LET parked == Parked(call.tile)
           forward == Forward(call.tile)
       IN  /\ fault' = ""
           /\ InList(call.list_east) \cup InList(call.list_west) = parked
           /\ InList(call.list_east) \cap InList(call.list_west) = {}
           /\ \A x \in parked : veh[x].direction \in {forward, ReverseDir(forward)}
           /\ plat'[call.h].occupied_east
                = LengthOf({x \in parked : veh[x].direction = forward})
           /\ plat'[call.h].occupied_west
                = LengthOf({x \in parked : veh[x].direction = ReverseDir(forward)})]_vars

\* Rebuild has run over a run of two or more tiles on which rv1 stands
\* crashed and rv2 in the stop, heading against the run: occupied_west is
\* the length of rv2 and occupied_east is zero.
C14_Witness ==
  /\ call = NoCall /\ fault = ""
  /\ \E t \in Stops :
       /\ rs[t].base /\ Cardinality(Run(t)) >= 2
       /\ StandingOnRun(t) = Vehicles /\ Parked(t) = {"rv2"}
       /\ veh["rv1"].crashed /\ veh["rv1"].type = "VEH_ROAD" /\ veh["rv1"].primary
       /\ veh["rv1"].in_road_stop
       /\ veh["rv2"].direction = "DIR_NE"
       /\ plat[rs[t].platform].occupied_west = CachedLen("rv2")
       /\ plat[rs[t].platform].occupied_east = 0

\* C15: Rebuild counts each vehicle once: when it stores its result no
\* vehicle is twice on its lists, and the two occupancy totals together are
\* the total length of the distinct counted vehicles, also when the
\* iterators of several tiles of the run yield the same vehicle.
C15_RebuildCountsOnce ==
  [][InRebuild("store") =>
       /\ NoRepeat(call.list_east \o call.list_west)
       /\ Len(call.list_east) + Len(call.list_west) = Cardinality(Parked(call.tile))
       /\ plat'[call.h].occupied_east + plat'[call.h].occupied_west
            = LengthOf(Parked(call.tile))]_vars

\* Rebuild has run over a run on two tiles of which rv1 stands, in the stop
\* and heading along the run as rv2 does: occupied_east is the length of rv1
\* and of rv2, each once.
C15_Witness ==
  /\ call = NoCall /\ fault = ""
  /\ \E t \in Stops :
       /\ rs[t].base
       /\ Parked(t) = Vehicles
       /\ veh["rv1"].tile \in Run(t) /\ veh["rv1"].tail \in Run(t)
       /\ veh["rv1"].tail # veh["rv1"].tile
       /\ veh["rv2"].tile = veh["rv1"].tail
       /\ veh["rv1"].direction = "DIR_SW" /\ veh["rv2"].direction = "DIR_SW"
       /\ plat[rs[t].platform].occupied_east = CachedLen("rv1") + CachedLen("rv2")
       /\ plat[rs[t].platform].occupied_west = 0

\* C16: in every reachable state the base tile of each run is the
\* northernmost tile of the run: the tile one step north of a base tile is
\* no continuation of it (the first assertion of CheckIntegrity holds).
C16_BaseIsNorthernmost ==
  \A t \in Stops :
    rs[t].base =>
      /\ IntegrityOfBase(map, t)
      /\ t = Northmost(Run(t))
      /\ NorthOf(t) \notin Run(t)

\* A run of three tiles whose base is its northernmost tile lies directly
\* south of a stop of another station, which is a base itself.
C16_Witness ==
  /\ removing = NULL
  /\ \E t \in Stops :
       /\ Cardinality(Run(t)) = 3 /\ rs[t].base
       /\ OnMap(NorthOf(t)) /\ map[NorthOf(t)] # map[t]
       /\ rs[NorthOf(t)].base
       /\ ~rs[SouthOf(t)].base /\ ~rs[SouthOf(SouthOf(t))].base

\* The loop runs on: after the step the operation is at the same loop.
StillAt(op, pc) == fault' = "" /\ call' # NoCall /\ call'.op = op /\ call'.pc = pc
Continues(anchor, tile) == IsDriveThroughRoadStopContinuation(map, anchor, tile)

\* A step of a loop that walks south from tile to tile: a turn visits a
\* continuation of anchor and moves the cursor one tile on, on the map; the
\* loop is left at a tile that is no continuation.
MergeWalkBounded ==
  At("MakeDriveThrough", "merge") =>
    IF StillAt("MakeDriveThrough", "merge")
    THEN /\ Continues(call.this, call.south_tile)
         /\ call.offset > 0 /\ call'.south_tile = call.south_tile + call.offset
         /\ call'.south_tile \in MapTiles
    ELSE fault' = "" /\ ~Continues(call.this, call.south_tile)
SouthWalkBounded ==
  At("ClearDriveThrough", "south_walk") =>
    IF StillAt("ClearDriveThrough", "south_walk")
    THEN /\ Continues(call.base_tile, call.south_tile)
         /\ call.offset > 0 /\ call'.south_tile = call.south_tile + call.offset
         /\ call'.south_tile \in MapTiles
    ELSE fault' = "" /\ ~Continues(call.base_tile, call.south_tile)
NorthWalkBounded ==
  At("ClearDriveThrough", "north_walk") =>
    IF StillAt("ClearDriveThrough", "north_walk")
    THEN /\ Continues(call.base_tile, call.north_tile)
         /\ call.offset > 0 /\ call'.north_tile = call.north_tile - call.offset
         /\ call'.north_tile \in MapTiles
    ELSE fault' = "" /\ ~Continues(call.base_tile, call.north_tile)
ScanBounded ==
  /\ At("Rebuild", "scan") =>
       IF StillAt("Rebuild", "iter")
       THEN Continues(call.tile, call.t) /\ call'.t = call.t
       ELSE fault' = "" /\ ~Continues(call.tile, call.t)
  /\ (At("Rebuild", "iter") /\ StillAt("Rebuild", "scan")) =>
       /\ call.offset > 0 /\ call'.t = call.t + call.offset
       /\ call'.t \in MapTiles

\* C17: every MakeDriveThrough, ClearDriveThrough and Rebuild that is
\* entered returns: each of the four loops over tiles moves one tile on in
\* one direction with every turn, so it visits a tile at most once, stays
\* on the map, and is left at the first tile that is no continuation.
C17_WalksTerminate ==
  /\ [][MergeWalkBounded /\ SouthWalkBounded /\ NorthWalkBounded /\ ScanBounded]_vars
  /\ (call # NoCall) ~> (call = NoCall)

\* The loop of MakeDriveThrough has taken over two southern stops and is at
\* the tile behind them, which is no continuation.
C17_Witness ==
  /\ At("MakeDriveThrough", "merge")
  /\ call.added = 3
  /\ call.south_tile = call.this + 3 * call.offset
  /\ ~Continues(call.this, call.south_tile)

\* The ClearDriveThrough that runs, be it in one of its calls of Rebuild.
Clearing ==
  /\ call # NoCall
  /\ \/ call.op = "ClearDriveThrough"
     \/ call.op = "Rebuild" /\ call.caller # NoCall
ClearOf(c) == IF c.op = "Rebuild" THEN c.caller ELSE c

\* C19: within one ClearDriveThrough both neighbours are classified, and
\* their RoadStops fetched, while the tile is on the map; then the tile is
\* cleared, nothing else being changed; only with the tile cleared is any
\* platform pointer, Platform field or base bit written; and the
\* classification is not made again after the tile is cleared.
C19_ClearOrder ==
  [][Clearing =>
       LET c == ClearOf(call) IN
       /\ c.pc = "classify" =>
            /\ map[c.this] # Void /\ map' = map /\ rs' = rs /\ plat' = plat
            /\ call'.north = Continues(c.this, c.this - SouthOffset(map, c.this))
            /\ call'.south = Continues(c.this, c.this + SouthOffset(map, c.this))
            /\ call'.north => call'.rs_north = c.this - SouthOffset(map, c.this)
            /\ call'.south => call'.rs_south = c.this + SouthOffset(map, c.this)
       /\ map' # map =>
            /\ c.pc = "clear" /\ map[c.this] # Void
            /\ map' = [map EXCEPT ![c.this] = Void]
            /\ rs' = rs /\ plat' = plat
       /\ (rs' # rs \/ plat' # plat) => map[c.this] = Void
       /\ (call' # NoCall /\ c.pc \notin {"assert", "classify"}) =>
            /\ ClearOf(call').north = c.north
            /\ ClearOf(call').south = c.south]_vars

\* The middle tile of a run has just been cleared from the map: both its
\* neighbours are classified as continuations, no longer are on the map,
\* and no record or Platform is touched yet.
C19_Witness ==
  /\ At("ClearDriveThrough", "branch")
  /\ call.north /\ call.south
  /\ map[call.this] = Void
  /\ ~Continues(call.rs_north, call.this)
  /\ rs[call.this].platform # NULL
  /\ rs[call.this].platform = rs[call.rs_north].platform
  /\ rs[call.this].platform = rs[call.rs_south].platform
  /\ ~rs[call.rs_south].base

\* The step builds a stop on tile t that has a tile of its kind on exactly
\* one side along its axis.
EndAttachStep(t) ==
  /\ map[t] = Void /\ map'[t] \in DriveThroughKinds
  /\ (map[t - AxisStep(map'[t])] = map'[t]) # (map[t + AxisStep(map'[t])] = map'[t])

\* C20: attaching a tile at one end of a run keeps the run's Platform
\* object, adds exactly TILE_SIZE to its length and leaves occupied_east and
\* occupied_west as they are; no other Platform is created, freed or
\* changed. With the run to the south the new tile becomes the base and the
\* south neighbour loses the base flag; with the run to the north no base
\* flag changes.
C20_EndAttachExtends ==
  [][\A t \in Buildable :
       EndAttachStep(t) =>
         LET n == t - AxisStep(map'[t])
             s == t + AxisStep(map'[t])
             nb == IF map[n] = map'[t] THEN n ELSE s
             h == rs[nb].platform
         IN  /\ fault' = ""
             /\ h # NULL /\ plat[h].live /\ plat'[h].live
             /\ rs'[t].platform = h
             /\ \A u \in Run(nb) : rs'[u].platform = h
             /\ plat'[h].length = plat[h].length + TILE_SIZE
             /\ plat'[h].occupied_east = plat[h].occupied_east
             /\ plat'[h].occupied_west = plat[h].occupied_west
             /\ \A g \in Handles \ {h} : plat'[g] = plat[g]
             /\ IF nb = s
                THEN /\ rs[s].base /\ ~rs'[s].base /\ rs'[t].base
                     /\ \A u \in Buildable \ {t, s} : rs'[u] = rs[u]
                ELSE /\ ~rs'[t].base
                     /\ \A u \in Buildable \ {t} : rs'[u] = rs[u]]_vars

\* A run of three tiles stands with a free tile on either side; its
\* Platform of three tiles' length holds the lengths of both vehicles, which
\* stand on its end tiles heading opposite ways.
C20_Witness ==
  /\ removing = NULL
  /\ \E t \in Stops :
       /\ Cardinality(Run(t)) = 3 /\ rs[t].base
       /\ map[t - 1] = Void /\ map[t + 3] = Void
       /\ plat[rs[t].platform].length = 3 * TILE_SIZE
       /\ CountedOn(t) = {"rv2"} /\ CountedOn(t + 2) = {"rv1"}
       /\ plat[rs[t].platform].occupied_east = CachedLen("rv1")
       /\ plat[rs[t].platform].occupied_west = CachedLen("rv2")

\* The text of T: the bytes before its terminating zero.
Contents(T) == [i \in 0 .. StrLen(T.buffer) - 1 |-> T.buffer[i]]

\* C18: whenever InsertString returns false, the buffer contents, the byte
\* length, the character count and the marked range are what they were
\* before the call.
C18_FalseMeansUnchanged ==
  [][(tb # NoText /\ tb'.op = "InsertString" /\ ~tb'.ret /\ fault' = "")
       => /\ Contents(tb') = Contents(tb)
          /\ tb'.len = tb.len
          /\ tb'.chars = tb.chars
          /\ tb'.markpos = tb.markpos
          /\ tb'.markend = tb.markend]_vars

\* The step removes the stop of tile t, which has a tile of its run on
\* exactly one side.
EndDetachStep(t) ==
  /\ OnMap(t) /\ map'[t] = Void
  /\ (map[NorthOf(t)] = map[t]) # (map[SouthOf(t)] = map[t])

\* C21: detaching an end tile of a run of two or more tiles keeps the
\* run's Platform alive and shared by the remaining tiles, subtracts exactly
\* TILE_SIZE from its length and leaves occupied_east and occupied_west as
\* they are; a remaining neighbour to the south receives the base flag, and
\* with the neighbour to the north no base flag of a remaining tile changes.
C21_EndDetachShrinks ==
  [][\A t \in Buildable :
       EndDetachStep(t) =>
         LET h == rs[t].platform
             rest == Run(t) \ {t}
             s == SouthOf(t)
         IN  /\ fault' = ""
             /\ h # NULL /\ plat[h].live /\ plat'[h].live
             /\ rest # {}
             /\ \A u \in rest : rs'[u].platform = h
             /\ plat'[h].length = plat[h].length - TILE_SIZE
             /\ plat'[h].occupied_east = plat[h].occupied_east
             /\ plat'[h].occupied_west = plat[h].occupied_west
             /\ IF map[s] = map[t]
                THEN /\ rs'[s].base
                     /\ \A u \in rest \ {s} : rs'[u].base = rs[u].base
                ELSE \A u \in rest : rs'[u].base = rs[u].base]_vars

\* The base tile of a run of three was just removed from its northern end:
\* the two tiles left share the Platform, of two tiles' length, that still
\* holds the lengths of both vehicles, and the southern neighbour is the
\* base.
C21_Witness ==
  /\ removing # NULL /\ map[removing - 1] = Void
  /\ OnMap(removing + 1) /\ Cardinality(Run(removing + 1)) = 2
  /\ rs[removing + 1].base /\ ~rs[removing + 2].base
  /\ rs[removing + 1].platform = rs[removing + 2].platform
  /\ plat[rs[removing + 1].platform].length = 2 * TILE_SIZE
  /\ plat[rs[removing + 1].platform].occupied_east
       + plat[rs[removing + 1].platform].occupied_west = SumLength(Vehicles)

\* C22: when a detach splits a run, the south neighbour becomes the base of
\* a Platform created by the step, to which every tile of the southern
\* sub-run points afterwards; the northern sub-run keeps the Platform
\* object of the run and its base tile; and the assertion on the base flag
\* of the northernmost tile, made before the northern Rebuild, does not
\* fail.
C22_SplitKeepsNorth ==
  [][\A t \in Buildable :
       SplitStep(t) =>
         LET h == rs[t].platform
             n == NorthOf(t)
             s == SouthOf(t)
             g == rs'[s].platform
             north == RunOf(map', n)
             south == RunOf(map', s)
         IN  /\ fault' = ""
             /\ g # NULL /\ g # h /\ ~plat[g].live /\ plat'[g].live
             /\ rs'[s].base
             /\ \A u \in south : rs'[u].platform = g
             /\ \A u \in south \ {s} : ~rs'[u].base
             /\ h # NULL /\ plat[h].live /\ plat'[h].live
             /\ \A u \in north : rs'[u].platform = h /\ rs'[u].base = rs[u].base
             /\ {u \in north : rs'[u].base} = BasesOf(Run(t))
             /\ rs'[Northmost(north)].base
             /\ {f \in Handles : plat'[f].live} = LivePlatforms \cup {g}]_vars

\* A tile of a run was just removed that had one tile or more north of it
\* and two or more south of it: the tiles south of it share a Platform of
\* their own whose base is the first of them, and the tiles north of it
\* kept the other Platform and the base.
C22_Witness ==
  /\ removing # NULL
  /\ OnMap(removing - 1) /\ OnMap(removing + 1) /\ OnMap(removing + 2)
  /\ map[removing - 1] = map[removing + 1] /\ map[removing + 1] = map[removing + 2]
  /\ rs[removing + 1].base /\ ~rs[removing + 2].base
  /\ rs[removing + 2].platform = rs[removing + 1].platform
  /\ rs[removing - 1].platform # rs[removing + 1].platform
  /\ rs[Northmost(Run(removing - 1))].base
  /\ plat[rs[removing - 1].platform].live /\ plat[rs[removing + 1].platform].live

\* C23: when an attach bridges two runs, the Platform that survives is the
\* Platform object of the north run and the base of the merged run is the
\* base tile of the north run; the Platform of the south run is freed (once:
\* no fault), the former south base loses the base flag, every tile of the
\* former south run points to the surviving Platform, and no Platform is
\* created.
C23_MergeKeepsNorth ==
  [][\A t \in Buildable :
       MergeStep(t) =>
         LET n == t - AxisStep(map'[t])
             s == t + AxisStep(map'[t])
             hn == rs[n].platform
             hs == rs[s].platform
             run == RunOf(map', t)
         IN  /\ fault' = ""
             /\ hn # NULL /\ hs # NULL /\ hn # hs
             /\ plat[hn].live /\ plat'[hn].live
             /\ plat[hs].live /\ ~plat'[hs].live /\ plat'[hs].freed
             /\ rs'[t].platform = hn /\ ~rs'[t].base
             /\ \A u \in Run(n) : rs'[u].platform = hn /\ rs'[u].base = rs[u].base
             /\ \A u \in Run(s) : rs'[u].platform = hn /\ ~rs'[u].base
             /\ BasesOf(Run(s)) = {s} /\ ~rs'[s].base
             /\ {u \in run : rs'[u].base} = BasesOf(Run(n))
             /\ {f \in Handles : plat'[f].live} = LivePlatforms \ {hs}
             /\ \A f \in Handles \ {hn, hs} : plat'[f] = plat[f]]_vars

\* A run of four tiles whose only base is its northernmost tile, all on
\* the one Platform that is live, while the Platform its southern part had
\* is freed.
C23_Witness ==
  /\ removing = NULL
  /\ \E t \in Stops :
       /\ Cardinality(Run(t)) = 4 /\ t = Northmost(Run(t))
       /\ BasesOf(Run(t)) = {t}
       /\ \A u \in Run(t) : rs[u].platform = rs[t].platform
       /\ LivePlatforms = {rs[t].platform}
       /\ Cardinality({h \in Handles : plat[h].freed}) = 1
       /\ map[SouthOfCorner] = Void

\* Every stop on the map has been attached.
Loaded == \A t \in Stops : rs[t].platform # NULL

\* The tiles of the run of t that are attached already and reach t over
\* attached tiles only.
AttachedRun(t) ==
  {u \in Run(t) :
     \A w \in Run(t) : (Min(t, u) <= w /\ w <= Max(t, u)) => rs[w].platform # NULL}

\* C24: when MakeDriveThrough is called once on each stop of a loaded map,
\* in any order, no call fails and in the end every run has one Platform
\* shared by its tiles and by no other run, one base tile, which is its
\* northernmost, and a length of TILE_SIZE times its tiles. On the way a
\* neighbour that has no Platform yet counts as absent: the attached tiles
\* between two such tiles (or run ends) form a run of their own, with one
\* Platform, one base at its north end and the length of its tiles.
C24_LoadAnyOrder ==
  /\ fault = ""
  /\ Loaded =>
       \A t \in Stops :
         /\ plat[rs[t].platform].live
         /\ \A u \in Stops : (rs[u].platform = rs[t].platform) <=> (u \in Run(t))
         /\ BasesOf(Run(t)) = {Northmost(Run(t))}
         /\ plat[rs[t].platform].length = TILE_SIZE * Cardinality(Run(t))
  /\ \A t \in Stops :
       rs[t].platform # NULL =>
         /\ plat[rs[t].platform].live
         /\ \A u \in Stops : (rs[u].platform = rs[t].platform) <=> (u \in AttachedRun(t))
         /\ BasesOf(AttachedRun(t)) = {Northmost(AttachedRun(t))}
         /\ plat[rs[t].platform].length = TILE_SIZE * Cardinality(AttachedRun(t))

\* All stops of a map with a run of four along the row and a stop of
\* another axis south of the corner are attached; the run has one Platform
\* of four tiles' length and its base in the north, and a Platform was
\* freed on the way (two parts were attached apart and then bridged).
C24_Witness ==
  /\ Loaded
  /\ OnMap(Corner) /\ Cardinality(Run(Corner)) = 4
  /\ OnMap(SouthOfCorner)
  /\ BasesOf(Run(Corner)) = {Corner}
  /\ plat[rs[Corner].platform].length = 4 * TILE_SIZE
  /\ \E h \in Handles : plat[h].freed
  /\ Cardinality(LivePlatforms) = 2

\* The step builds a drive-through stop on tile t, or removes the one on it.
AttachStep(t) == map[t] = Void /\ map'[t] \in DriveThroughKinds
DetachStep(t) == OnMap(t) /\ map'[t] = Void

\* The tiles the step on tile t may touch: t and the tiles that are in one
\* run with it, before or after the step.
Touched(t) == IF AttachStep(t) THEN RunOf(map', t) ELSE Run(t)

\* The Platforms the tiles of T point to before or after the step.
PlatformsOf(T) ==
  {rs[u].platform : u \in {w \in T : rs[w] # NoStop}}
    \cup {rs'[u].platform : u \in {w \in T : rs'[w] # NoStop}}

\* C25: an attach or detach of tile t changes only the RoadStop of t, the
\* RoadStops of the run or runs next to t along its axis, and their
\* Platforms: every other RoadStop (of another station, stop type or axis,
\* or of a run that does not touch t) keeps its platform pointer and base
\* flag, and every other Platform keeps its fields.
C25_OtherRunsUntouched ==
  [][\A t \in Buildable :
       (AttachStep(t) \/ DetachStep(t)) =>
         /\ \A u \in Buildable \ Touched(t) : rs'[u] = rs[u]
         /\ \A h \in Handles \ PlatformsOf(Touched(t)) : plat'[h] = plat[h]
         /\ \A u \in Stops \ Touched(t) :
              /\ rs'[u].platform = rs[u].platform
              /\ rs'[u].base = rs[u].base
              /\ rs[u].platform \notin PlatformsOf(Touched(t))
              /\ plat'[rs[u].platform] = plat[rs[u].platform]]_vars

\* A stop of the row was just removed between a stop of its own station
\* and a stop of another station, while a run of two tiles along the other
\* axis stands on the corner: three runs, each with its own live Platform
\* of the length of its tiles.
C25_Witness ==
  /\ removing = Corner + 2
  /\ OnMap(Corner) /\ map[Corner].axis = "AXIS_Y" /\ Cardinality(Run(Corner)) = 2
  /\ OnMap(Corner + 1) /\ OnMap(Corner + 3)
  /\ map[Corner + 1].st = rs[removing].st
  /\ map[Corner + 3].st # rs[removing].st
  /\ Cardinality({rs[Corner].platform, rs[Corner + 1].platform, rs[Corner + 3].platform}) = 3
  /\ plat[rs[Corner].platform].length = 2 * TILE_SIZE
  /\ plat[rs[Corner + 1].platform].length = TILE_SIZE
  /\ plat[rs[Corner + 3].platform].length = TILE_SIZE
  /\ rs[Corner].base /\ rs[Corner + 1].base /\ rs[Corner + 3].base

\* The runs on the map, each as the set of its tiles.
Runs == {Run(t) : t \in Stops}

\* The step destroys the record of the stop that was detached.
DestroyStep == removing # NULL /\ removing' = NULL

\* C26: Platforms are neither leaked nor freed twice. In every reachable
\* state no operation has failed, there are as many live Platforms as
\* runs, and every live Platform is pointed to by a stop on the map; and
\* the destruction of a detached record, whose base flag is clear, frees
\* no Platform and changes none.
C26_NoLeakNoDoubleFree ==
  /\ [](/\ fault = ""
        /\ Cardinality(LivePlatforms) = Cardinality(Runs)
        /\ \A h \in LivePlatforms : \E t \in Stops : rs[t].platform = h)
  /\ [][DestroyStep => /\ ~rs[removing].base
                       /\ plat' = plat
                       /\ fault' = ""]_vars

\* Platforms have been freed, by a merge or by the removal of a last tile,
\* and handles are in use again: two runs stand on the row, a run of two
\* and a single stop of another station, each on a live Platform, and no
\* record waits for destruction.
C26_Witness ==
  /\ removing = NULL
  /\ \E h \in Handles : plat[h].freed
  /\ \E t \in Stops, u \in Stops :
       /\ Cardinality(Run(t)) = 2 /\ Cardinality(Run(u)) = 1
       /\ LivePlatforms = {rs[t].platform, rs[u].platform}
       /\ rs[t].platform # rs[u].platform
       /\ rs[Corner] = NoStop

\* C27: after any sequence of editing operations on a constructed Textbuf
\* the byte length is strictly below the capacity, the character count
\* (the terminating zero included) is at most max_chars, the caret is
\* between 0 and the byte length, and neither assertion of InsertString
\* has failed.
C27_SizesStayInBounds ==
  tb # NoText =>
    /\ tb.len < tb.capacity
    /\ tb.chars <= tb.max_chars
    /\ 0 <= tb.caretpos /\ tb.caretpos <= tb.len
    /\ fault \notin {"assert: len < capacity", "assert: chars <= max_chars"}

\* C28: once text has been marked, whatever edits follow, the marked range
\* stays inside the text: markpos <= markend <= byte length.
C28_MarkedRangeInsideText ==
  tb # NoText => tb.markpos <= tb.markend /\ tb.markend <= tb.len

====
